---- MODULE Spec2Model ----
(***************************************************************************)
(* Streaming adapters of brotlic (src/src/encode.rs, src/src/decode.rs)    *)
(* over the brotli codec engine declared in src/brotlic-sys/src/lib.rs.    *)
(*                                                                         *)
(* The engine is modelled by its documented stream contract with a small   *)
(* framed format: a meta-block is a header symbol carrying the number of   *)
(* literals followed by the coded literals, and the stream ends with the   *)
(* END symbol.  The adapters are translated statement by statement.        *)
(***************************************************************************)
EXTENDS Integers, Sequences, FiniteSets, TLC

\* ---------------------------------------------------------------- bounds
MaxByte   == 1   \* raw bytes are 0..MaxByte
MaxInput  == 3   \* raw bytes fed to one encoder over its lifetime
MaxBuf    == 2   \* longest caller buffer of one read or write call
BlockSize == 2   \* raw bytes the encoder stages before it must code a block
RingSize  == 2   \* decoded bytes the decoder holds before it needs output
MaxFill   == 2   \* largest slice a BufRead source hands out per fill_buf
MaxFaults == 1   \* downstream/upstream failures (errors or panics) per run
MaxPostfix == 5  \* postfix_bits given to the options are 0..MaxPostfix
MaxDirect == 125 \* direct_distance_codes given to the options are 0..MaxDirect
MaxOver   == 2   \* stream offsets given are within MaxOver of 1 << 30
MaxCode   == 64  \* error codes the engine reports are -MaxCode..MaxCode
MaxCoded  == 4   \* coded symbols given to a decompressing adapter used on its own

Byte == 0..MaxByte

Min(a, b) == IF a < b THEN a ELSE b

Take(s, n) == SubSeq(s, 1, n)
Drop(s, n) == SubSeq(s, n + 1, Len(s))

Seqs(S, n) == UNION {[1..k -> S] : k \in 0..n}

\* ------------------------------------------------------ the coded format
END    == MaxByte + 1
Hdr(n) == MaxByte + 1 + n
Lit(b) == MaxByte - b
UnLit(c) == MaxByte - c

\* EncodeData that emits a meta-block even when nothing is staged.
EncodeData_EmptyBlock(staged, is_last) ==
    <<Hdr(Len(staged))>> \o [i \in 1..Len(staged) |-> Lit(staged[i])]
    \o (IF is_last THEN <<END>> ELSE <<>>)

\* One coding step of the encoder: the staged bytes as one meta-block,
\* followed by the stream terminator when this is the last block.
EncodeData(staged, is_last) ==
    (IF staged = <<>> THEN <<>>
     ELSE <<Hdr(Len(staged))>> \o [i \in 1..Len(staged) |-> Lit(staged[i])])
    \o (IF is_last THEN <<END>> ELSE <<>>)

\* ------------------------------------------------------------ BrotliEncoder
\* staged: input copied into the engine and not coded yet; pending: coded
\* output not taken yet; st: the engine's stream state.
NewEncoder == [staged |-> <<>>, pending |-> <<>>, st |-> "PROCESSING"]

\* CheckFlushComplete that never leaves the flush state.
CheckFlushComplete_Stuck(e) == e

CheckFlushComplete(e) ==
    IF e.st = "FLUSH_REQUESTED" /\ e.pending = <<>>
    THEN [e EXCEPT !.st = "PROCESSING"] ELSE e

\* BrotliEncoderCompressStream: (1) copy input into the staging block,
\* (2) code the block, (3) copy coded bytes to the output; repeat until
\* none of the three can move forward.
RECURSIVE CompressStreamLoop(_, _, _, _, _)
CompressStreamLoop(e, in, out, cap, op) ==
    LET room == BlockSize - Len(e.staged) IN
    IF room # 0 /\ in # <<>> THEN
        LET n == Min(room, Len(in)) IN
        CompressStreamLoop([e EXCEPT !.staged = @ \o Take(in, n)],
                           Drop(in, n), out, cap, op)
    ELSE IF e.pending # <<>> /\ Len(out) < cap THEN
        LET n == Min(Len(e.pending), cap - Len(out)) IN
        CompressStreamLoop([e EXCEPT !.pending = Drop(@, n)],
                           in, out \o Take(e.pending, n), cap, op)
    ELSE IF e.pending = <<>> /\ e.st = "PROCESSING"
            /\ (room = 0 \/ op # "Process") THEN
        LET is_last     == in = <<>> /\ op = "Finish"
            force_flush == in = <<>> /\ op = "Flush"
            st1 == IF is_last THEN "FINISHED"
                   ELSE IF force_flush THEN "FLUSH_REQUESTED" ELSE e.st
        IN CompressStreamLoop(
               [staged |-> <<>>, pending |-> EncodeData(e.staged, is_last),
                st |-> st1], in, out, cap, op)
    ELSE [enc |-> CheckFlushComplete(e), rest |-> in, out |-> out]

\* BrotliEncoder::compress: Err(EncodeError) when the engine refuses the
\* call (input offered while a flush or the finish is in flight).
compress(e, input, cap, op) ==
    IF e.st # "PROCESSING" /\ input # <<>>
    THEN [ok |-> FALSE, enc |-> e, bytes_read |-> 0, bytes_written |-> 0,
          out |-> <<>>]
    ELSE LET r == CompressStreamLoop(e, input, <<>>, cap, op) IN
         [ok |-> TRUE, enc |-> r.enc,
          bytes_read |-> Len(input) - Len(r.rest),
          bytes_written |-> Len(r.out), out |-> r.out]

\* give_input that starts the staging block afresh on every input, so what
\* an earlier call staged is forgotten.
give_input_Restage(e, input, op) ==
    compress(IF input = <<>> THEN e ELSE [e EXCEPT !.staged = <<>>],
             input, 0, op)

\* BrotliEncoder::give_input: compress with an empty output buffer.
give_input(e, input, op) == compress(e, input, 0, op)

\* BrotliEncoder::flush / finish, through give_op: an empty input with the op.
give_op(e, op) == give_input(e, <<>>, op)

has_output(e) == e.pending # <<>>

is_finished(e) == e.st = "FINISHED" /\ ~has_output(e)

\* BrotliEncoder::take_output when has_output: the engine hands out the next
\* k bytes of its pending output (output is not guaranteed contiguous, so k
\* is the engine's choice) and considers them consumed.
take_output(e, k) ==
    [chunk |-> Take(e.pending, k),
     enc   |-> CheckFlushComplete([e EXCEPT !.pending = Drop(@, k)])]

\* ------------------------------------------------------------ BrotliDecoder
\* st: HDR (expects a block header or END), LIT (rem literals to go), DONE,
\* ERROR; ring: decoded bytes not handed out yet.
NewDecoder == [st |-> "HDR", rem |-> 0, ring |-> <<>>]

\* BrotliDecoderDecompressStream.
RECURSIVE DecompressStreamLoop(_, _, _, _)
DecompressStreamLoop(d, in, out, cap) ==
    IF d.ring # <<>> /\ Len(out) < cap THEN
        LET n == Min(Len(d.ring), cap - Len(out)) IN
        DecompressStreamLoop([d EXCEPT !.ring = Drop(@, n)], in,
                             out \o Take(d.ring, n), cap)
    ELSE IF d.st = "DONE" THEN
        [dec |-> d, rest |-> in, out |-> out,
         result |-> IF d.ring = <<>> THEN "SUCCESS" ELSE "NEEDS_MORE_OUTPUT"]
    ELSE IF Len(d.ring) >= RingSize THEN
        [dec |-> d, rest |-> in, out |-> out, result |-> "NEEDS_MORE_OUTPUT"]
    ELSE IF in = <<>> THEN
        [dec |-> d, rest |-> in, out |-> out, result |-> "NEEDS_MORE_INPUT"]
    ELSE
        LET c == Head(in) IN
        IF d.st = "HDR" THEN
            IF c = END THEN
                DecompressStreamLoop([d EXCEPT !.st = "DONE"], Tail(in), out, cap)
            ELSE IF c > END THEN
                DecompressStreamLoop([d EXCEPT !.st = "LIT", !.rem = c - END],
                                     Tail(in), out, cap)
            ELSE [dec |-> [d EXCEPT !.st = "ERROR"], rest |-> Tail(in),
                  out |-> out, result |-> "ERROR"]
        ELSE \* LIT
            IF c \in Byte THEN
                DecompressStreamLoop(
                    [d EXCEPT !.ring = Append(@, UnLit(c)), !.rem = @ - 1,
                              !.st = IF d.rem = 1 THEN "HDR" ELSE "LIT"],
                    Tail(in), out, cap)
            ELSE [dec |-> [d EXCEPT !.st = "ERROR"], rest |-> Tail(in),
                  out |-> out, result |-> "ERROR"]

\* BrotliDecoder::decompress: info is Finished / NeedsMoreInput /
\* NeedsMoreOutput, or the call is Err(DecodeError).
decompress(d, input, cap) ==
    IF d.st = "ERROR"
    THEN [ok |-> FALSE, dec |-> d, bytes_read |-> 0, bytes_written |-> 0,
          out |-> <<>>, info |-> "Error"]
    ELSE LET r == DecompressStreamLoop(d, input, <<>>, cap) IN
         [ok |-> r.result # "ERROR", dec |-> r.dec,
          bytes_read |-> Len(input) - Len(r.rest),
          bytes_written |-> Len(r.out), out |-> r.out,
          info |-> CASE r.result = "SUCCESS" -> "Finished"
                     [] r.result = "NEEDS_MORE_INPUT" -> "NeedsMoreInput"
                     [] r.result = "NEEDS_MORE_OUTPUT" -> "NeedsMoreOutput"
                     [] OTHER -> "Error"]

\* BrotliDecoder::give_input: decompress with an empty output buffer.
dec_give_input(d, input) == decompress(d, input, 0)

dec_has_output(d) == d.ring # <<>> /\ d.st # "ERROR"

dec_is_finished(d) == d.st = "DONE" /\ d.ring = <<>>

dec_take_output(d, k) ==
    [chunk |-> Take(d.ring, k), dec |-> [d EXCEPT !.ring = Drop(@, k)]]

\* The whole of a coded stream decoded in one call with ample output space.
Decoded(c) == decompress(NewDecoder, c, Len(c))

\* ------------------------------------------------------------------ state
VARIABLES
    cw,         \* CompressorWriter {inner, encoder, panicked}
    cwSt,       \* where the CompressorWriter is: open / error / taken / dropped /
                \* parts (taken apart, the caller holds the encoder) / released
    fed,        \* raw bytes the CompressorWriter's encoder consumed
    accepted,   \* raw bytes for which CompressorWriter::write returned Ok(n)
    emitted,    \* every coded byte that encoder produced, in order
    destroyInstance, \* BrotliEncoderDestroyInstance calls on that encoder's state
    innerOut,   \* times the CompressorWriter's sink was handed out or dropped
    dr,         \* DecompressorReader {inner, decoder}
    drSt,       \* none / open / error / taken
    upstream,   \* what the DecompressorReader's source held when it was wrapped
    delivered,  \* bytes DecompressorReader::read returned, concatenated
    cr,         \* CompressorReader {inner, encoder, op}
    crSt,       \* none / open / error / taken / parts
    src0,       \* what the CompressorReader's source held when it was wrapped
    coded,      \* bytes CompressorReader::read returned, concatenated
    crEof,      \* a read with a non-empty buffer has returned Ok(0)
    dw,         \* DecompressorWriter {inner, decoder, panicked}
    dwSt,       \* none / open / error / taken / parts
    drem,       \* coded bytes the caller has still to write to the DecompressorWriter
    faults,     \* failures of the wrapped sink or source so far
    options,    \* a BrotliEncoderOptions being set up
    result,     \* the last parameter constructor or build call and its result
    ret         \* the last call and what it returned

vars == <<cw, cwSt, fed, accepted, emitted, destroyInstance, innerOut, dr, drSt, upstream, delivered,
          cr, crSt, src0, coded, crEof, dw, dwSt, drem, faults, options,
          result, ret>>

cwVars == <<cw, cwSt, fed, accepted, emitted, destroyInstance, innerOut>>
drVars == <<dr, drSt, upstream, delivered>>
crVars == <<cr, crSt, src0, coded, crEof>>
dwVars == <<dw, dwSt, drem>>
paramVars == <<options, result>>

\* One feed of the engine: the operation and the length of the input offered.
Feed(op, n) == <<op, n>>

\* One pass of a reader's loop: the operation, the length of the slice the
\* upstream pull exposed and the number of bytes the engine wrote.
FeedOut(op, n, w) == <<op, n, w>>

\* The last call: its name, its outcome, the count it returned, the length
\* of the buffer it was given and the operations it fed to the engine; prev
\* is the call made before it and that call's outcome; flushed tells that
\* the call invoked the inner sink's flush; atEof tells that the
\* CompressorReader had reported its end before the call.
Ret(op, tag, n, cap, feeds) ==
    [op |-> op, tag |-> tag, n |-> n, cap |-> cap, feeds |-> feeds,
     prev |-> <<ret.op, ret.tag>>, flushed |-> FALSE, atEof |-> crEof]

\* Before any call.
NoCall ==
    [op |-> "new", tag |-> "ok", n |-> 0, cap |-> 0, feeds |-> <<>>,
     prev |-> <<"new", "ok">>, flushed |-> FALSE, atEof |-> FALSE]

\* A BufRead over `data` that exposes at most `fill` bytes at a time.
Source(data, fill) == [data |-> data, buffered |-> 0, fill |-> fill]

\* BufRead::fill_buf as called by the readers: refill when the buffer is
\* empty; the slice is empty only at end of data.
fill_buf(s) ==
    LET b == IF s.buffered = 0 THEN Min(s.fill, Len(s.data)) ELSE s.buffered
    IN [inner |-> [s EXCEPT !.buffered = b], slice |-> Take(s.data, b)]

\* BufRead::consume.
consume(s, n) == [s EXCEPT !.data = Drop(@, n), !.buffered = @ - n]

\* -------------------------------------------------------- CompressorWriter
NewCompressorWriter ==
    [inner |-> <<>>, encoder |-> NewEncoder, panicked |-> FALSE]

\* cw_write_chunk with the flag lowered only on success (`write_all(..)?`
\* placed before `self.panicked = false`).
cw_write_chunk_FlagKept(w, chunk, f) ==
    {[w |-> [w EXCEPT !.inner = @ \o chunk, !.panicked = FALSE],
      tag |-> "ok", f |-> f]}
    \cup
    (IF f < MaxFaults
     THEN {[w |-> [w EXCEPT !.inner = @ \o Take(chunk, j), !.panicked = TRUE],
            tag |-> t, f |-> f + 1] :
              j \in 0..(Len(chunk) - 1), t \in {"ioerr", "panic"}}
     ELSE {})

\* cw_write_chunk on a sink that receives a chunk in front of what it
\* holds.
cw_write_chunk_Prepend(w, chunk, f) ==
    {[w |-> [w EXCEPT !.inner = chunk \o @, !.panicked = FALSE],
      tag |-> "ok", f |-> f]}
    \cup
    (IF f < MaxFaults
     THEN {[w |-> [w EXCEPT !.inner = @ \o Take(chunk, j), !.panicked = FALSE],
            tag |-> "ioerr", f |-> f + 1] : j \in 0..(Len(chunk) - 1)}
          \cup
          {[w |-> [w EXCEPT !.inner = @ \o Take(chunk, j), !.panicked = TRUE],
            tag |-> "panic", f |-> f + 1] : j \in 0..(Len(chunk) - 1)}
     ELSE {})

\* Write::write_all on the inner sink with the fault flag raised around it:
\* the sink takes the whole chunk, or fails (returns Err or unwinds) after
\* taking j < Len(chunk) bytes.  An Err return lowers the flag again.
cw_write_chunk(w, chunk, f) ==
    {[w |-> [w EXCEPT !.inner = @ \o chunk, !.panicked = FALSE],
      tag |-> "ok", f |-> f]}
    \cup
    (IF f < MaxFaults
     THEN {[w |-> [w EXCEPT !.inner = @ \o Take(chunk, j), !.panicked = FALSE],
            tag |-> "ioerr", f |-> f + 1] : j \in 0..(Len(chunk) - 1)}
          \cup
          {[w |-> [w EXCEPT !.inner = @ \o Take(chunk, j), !.panicked = TRUE],
            tag |-> "panic", f |-> f + 1] : j \in 0..(Len(chunk) - 1)}
     ELSE {})

\* cw_flush_encoder_output that takes and writes one chunk only (`if let`
\* for `while let`).
cw_flush_encoder_output_Once(w, f) ==
    IF ~has_output(w.encoder) THEN {[w |-> w, tag |-> "ok", f |-> f]}
    ELSE UNION {
        LET t == take_output(w.encoder, k)
        IN cw_write_chunk([w EXCEPT !.encoder = t.enc], t.chunk, f)
        : k \in 1..Len(w.encoder.pending)}

\* CompressorWriter::flush_encoder_output: every outcome of the drain loop.
RECURSIVE cw_flush_encoder_output(_, _)
cw_flush_encoder_output(w, f) ==
    IF ~has_output(w.encoder) THEN {[w |-> w, tag |-> "ok", f |-> f]}
    ELSE UNION {
        LET t  == take_output(w.encoder, k)
            rs == cw_write_chunk([w EXCEPT !.encoder = t.enc], t.chunk, f)
        IN UNION {IF r.tag = "ok" THEN cw_flush_encoder_output(r.w, r.f)
                  ELSE {r} : r \in rs}
        : k \in 1..Len(w.encoder.pending)}

\* cw_finish without the drain of the encoder's output.
cw_finish_NoDrain(w, f) ==
    LET g == give_op(w.encoder, "Finish") IN
    IF ~g.ok THEN {[w |-> w, tag |-> "encerr", f |-> f]}
    ELSE {[w |-> [w EXCEPT !.encoder = g.enc], tag |-> "ok", f |-> f]}

\* CompressorWriter::finish.
cw_finish(w, f) ==
    LET g == give_op(w.encoder, "Finish") IN
    IF ~g.ok THEN {[w |-> w, tag |-> "encerr", f |-> f]}
    ELSE cw_flush_encoder_output([w EXCEPT !.encoder = g.enc], f)

\* Write::write_all over CompressorWriter::write on a sink that accepts
\* everything: write the rest of buf until none is left.
RECURSIVE cw_write_all(_, _)
cw_write_all(w, buf) ==
    IF buf = <<>> THEN w
    ELSE LET g == give_input(w.encoder, buf, "Process")
             r == CHOOSE r \in cw_flush_encoder_output(
                                  [w EXCEPT !.encoder = g.enc], MaxFaults) : TRUE
         IN IF ~g.ok \/ g.bytes_read = 0 THEN r.w
            ELSE cw_write_all(r.w, Drop(buf, g.bytes_read))

\* The sink after a new CompressorWriter is given b in one single write_all
\* and then into_inner, on a sink that accepts everything.
OneWrite(b) ==
    LET w == cw_write_all(NewCompressorWriter, b)
        r == CHOOSE r \in cw_finish(w, MaxFaults) : TRUE
    IN r.w.inner

\* What a feed with no output space added to the encoder's pending output.
Produced(old, new) == Drop(new.pending, Len(old.pending))

\* Write::write for CompressorWriter.
CWWrite(buf) ==
    /\ cwSt = "open"
    /\ Len(fed) + Len(buf) <= MaxInput
    /\ LET g == give_input(cw.encoder, buf, "Process") IN
       IF ~g.ok THEN
           /\ ret' = Ret("cw_write", "encerr", 0, Len(buf), <<Feed("Process", Len(buf))>>)
           /\ UNCHANGED <<cw, cwSt, fed, accepted, emitted, faults>>
       ELSE \E r \in cw_flush_encoder_output([cw EXCEPT !.encoder = g.enc], faults) :
           /\ cw' = r.w
           /\ faults' = r.f
           /\ fed' = fed \o Take(buf, g.bytes_read)
           /\ emitted' = emitted \o Produced(cw.encoder, g.enc)
           /\ accepted' = IF r.tag = "ok" THEN accepted \o Take(buf, g.bytes_read)
                          ELSE accepted
           /\ ret' = Ret("cw_write", r.tag, IF r.tag = "ok" THEN g.bytes_read ELSE 0,
                         Len(buf), <<Feed("Process", Len(buf))>>)
           /\ UNCHANGED cwSt
    /\ UNCHANGED <<destroyInstance, innerOut>>
    /\ UNCHANGED <<drVars, crVars, dwVars, paramVars>>

\* Write::flush on the inner sink: it writes nothing here and may fail.
inner_flush(f) ==
    {[tag |-> "ok", f |-> f]}
    \cup (IF f < MaxFaults THEN {[tag |-> "ioerr", f |-> f + 1]} ELSE {})

\* CWFlush that flushes the inner sink before it looks at the result of
\* the drain (`let r = self.flush_encoder_output(); self.inner.flush()?; r`).
CWFlush_FlushesInnerFirst ==
    /\ cwSt = "open"
    /\ LET g == give_op(cw.encoder, "Flush") IN
       IF ~g.ok THEN
           /\ ret' = Ret("cw_flush", "encerr", 0, 0, <<Feed("Flush", 0)>>)
           /\ UNCHANGED <<cw, cwSt, fed, accepted, emitted, faults>>
       ELSE \E r \in cw_flush_encoder_output([cw EXCEPT !.encoder = g.enc], faults) :
           /\ cw' = r.w
           /\ emitted' = emitted \o Produced(cw.encoder, g.enc)
           /\ IF r.tag # "panic"
              THEN \E i \in inner_flush(r.f) :
                       /\ faults' = i.f
                       /\ ret' = [Ret("cw_flush",
                                      IF i.tag = "ok" THEN r.tag ELSE i.tag,
                                      0, 0, <<Feed("Flush", 0)>>)
                                      EXCEPT !.flushed = TRUE]
              ELSE /\ faults' = r.f
                   /\ ret' = Ret("cw_flush", r.tag, 0, 0, <<Feed("Flush", 0)>>)
           /\ UNCHANGED <<cwSt, fed, accepted>>
    /\ UNCHANGED <<destroyInstance, innerOut>>
    /\ UNCHANGED <<drVars, crVars, dwVars, paramVars>>

\* Write::flush for CompressorWriter: the Flush request, the drain, and
\* when both returned Ok the inner sink's flush.
CWFlush ==
    /\ cwSt = "open"
    /\ LET g == give_op(cw.encoder, "Flush") IN
       IF ~g.ok THEN
           /\ ret' = Ret("cw_flush", "encerr", 0, 0, <<Feed("Flush", 0)>>)
           /\ UNCHANGED <<cw, cwSt, fed, accepted, emitted, faults>>
       ELSE \E r \in cw_flush_encoder_output([cw EXCEPT !.encoder = g.enc], faults) :
           /\ cw' = r.w
           /\ emitted' = emitted \o Produced(cw.encoder, g.enc)
           /\ IF r.tag = "ok"
              THEN \E i \in inner_flush(r.f) :
                       /\ faults' = i.f
                       /\ ret' = [Ret("cw_flush", i.tag, 0, 0, <<Feed("Flush", 0)>>)
                                      EXCEPT !.flushed = TRUE]
              ELSE /\ faults' = r.f
                   /\ ret' = Ret("cw_flush", r.tag, 0, 0, <<Feed("Flush", 0)>>)
           /\ UNCHANGED <<cwSt, fed, accepted>>
    /\ UNCHANGED <<destroyInstance, innerOut>>
    /\ UNCHANGED <<drVars, crVars, dwVars, paramVars>>

\* CWIntoInner that lets go of the adapter when finish fails.
CWIntoInner_DropOnErr ==
    /\ cwSt = "open"
    /\ \E r \in cw_finish(cw, faults) :
           /\ cw' = r.w
           /\ faults' = r.f
           /\ emitted' = emitted \o
                  Produced(cw.encoder, give_op(cw.encoder, "Finish").enc)
           /\ cwSt' = IF r.tag = "ok" THEN "taken" ELSE "dropped"
           /\ ret' = Ret("cw_into_inner", r.tag, 0, 0, <<Feed("Finish", 0)>>)
    /\ UNCHANGED <<fed, accepted>>
    /\ destroyInstance' = destroyInstance + 1
    /\ innerOut' = innerOut + 1
    /\ UNCHANGED <<drVars, crVars, dwVars, paramVars>>

\* CompressorWriter::into_inner: Ok hands out the sink (into_parts().0, the
\* encoder is released); Err keeps the adapter inside the IntoInnerError; an
\* unwinding sink drops the adapter, whose flag is set at that point.
CWIntoInner ==
    /\ cwSt = "open"
    /\ \E r \in cw_finish(cw, faults) :
           /\ cw' = r.w
           /\ faults' = r.f
           /\ emitted' = emitted \o
                  Produced(cw.encoder, give_op(cw.encoder, "Finish").enc)
           /\ cwSt' = CASE r.tag = "ok" -> "taken"
                        [] r.tag = "panic" -> "dropped"
                        [] OTHER -> "error"
           /\ ret' = Ret("cw_into_inner", r.tag, 0, 0, <<Feed("Finish", 0)>>)
    /\ UNCHANGED <<fed, accepted>>
    /\ IF cwSt' = "error"
       THEN UNCHANGED <<destroyInstance, innerOut>>
       ELSE /\ destroyInstance' = destroyInstance + 1
            /\ innerOut' = innerOut + 1
    /\ UNCHANGED <<drVars, crVars, dwVars, paramVars>>

\* IntoInnerError::into_inner: the adapter comes back out of the error.
IntoInnerErrorIntoInner ==
    /\ cwSt = "error"
    /\ cwSt' = "open"
    /\ ret' = Ret("cw_error_into_inner", "ok", 0, 0, <<>>)
    /\ UNCHANGED <<cw, fed, accepted, emitted, faults>>
    /\ UNCHANGED <<destroyInstance, innerOut>>
    /\ UNCHANGED <<drVars, crVars, dwVars, paramVars>>

\* CWDrop that never finishes the stream.
CWDrop_NoFinish ==
    /\ cwSt \in {"open", "error"}
    /\ ret' = Ret("cw_drop", "unit", 0, 0, <<>>)
    /\ cwSt' = "dropped"
    /\ UNCHANGED <<cw, faults, emitted, fed, accepted>>
    /\ destroyInstance' = destroyInstance + 1
    /\ innerOut' = innerOut + 1
    /\ UNCHANGED <<drVars, crVars, dwVars, paramVars>>

\* CWDrop that finishes the stream whatever the fault flag says.
CWDrop_Unguarded ==
    /\ cwSt \in {"open", "error"}
    /\ \E r \in cw_finish(cw, faults) :
           /\ cw' = r.w
           /\ faults' = r.f
           /\ emitted' = emitted \o
                  Produced(cw.encoder, give_op(cw.encoder, "Finish").enc)
           /\ ret' = Ret("cw_drop", IF r.tag = "panic" THEN "panic" ELSE "unit",
                         0, 0, <<Feed("Finish", 0)>>)
    /\ cwSt' = "dropped"
    /\ UNCHANGED <<fed, accepted>>
    /\ destroyInstance' = destroyInstance + 1
    /\ innerOut' = innerOut + 1
    /\ UNCHANGED <<drVars, crVars, dwVars, paramVars>>

\* Drop for CompressorWriter (of the adapter itself, or of the
\* IntoInnerError that owns it): finish unless the fault flag is set, and
\* discard the result.
CWDrop ==
    /\ cwSt \in {"open", "error"}
    /\ IF ~cw.panicked
       THEN \E r \in cw_finish(cw, faults) :
                /\ cw' = r.w
                /\ faults' = r.f
                /\ emitted' = emitted \o
                       Produced(cw.encoder, give_op(cw.encoder, "Finish").enc)
                /\ ret' = Ret("cw_drop", IF r.tag = "panic" THEN "panic" ELSE "unit",
                              0, 0, <<Feed("Finish", 0)>>)
       ELSE /\ ret' = Ret("cw_drop", "unit", 0, 0, <<>>)
            /\ UNCHANGED <<cw, faults, emitted>>
    /\ cwSt' = "dropped"
    /\ UNCHANGED <<fed, accepted>>
    /\ destroyInstance' = destroyInstance + 1
    /\ innerOut' = innerOut + 1
    /\ UNCHANGED <<drVars, crVars, dwVars, paramVars>>

\* CWIntoParts without mem::forget(self): after the fields were read out,
\* self is dropped as well, and with it the sink and the encoder once more.
CWIntoParts_NoForget ==
    /\ cwSt = "open"
    /\ cwSt' = "parts"
    /\ ret' = Ret("cw_into_parts", IF ~cw.panicked THEN "ok" ELSE "WriterPanicked",
                  0, 0, <<>>)
    /\ UNCHANGED <<cw, fed, accepted, emitted, faults>>
    /\ innerOut' = innerOut + 2
    /\ destroyInstance' = destroyInstance + 1
    /\ UNCHANGED <<drVars, crVars, dwVars, paramVars>>

\* CompressorWriter::into_parts: ptr::read of both fields and mem::forget of
\* self, so nothing is dropped here; Ok(encoder) or WriterPanicked by the flag.
CWIntoParts ==
    /\ cwSt = "open"
    /\ cwSt' = "parts"
    /\ ret' = Ret("cw_into_parts", IF ~cw.panicked THEN "ok" ELSE "WriterPanicked",
                  0, 0, <<>>)
    /\ UNCHANGED <<cw, fed, accepted, emitted, faults>>
    /\ innerOut' = innerOut + 1
    /\ UNCHANGED destroyInstance
    /\ UNCHANGED <<drVars, crVars, dwVars, paramVars>>

\* Drop for BrotliEncoder, of the encoder the caller got from into_parts
\* (as Ok(encoder) or inside WriterPanicked).
BrotliEncoderDrop ==
    /\ cwSt = "parts"
    /\ cwSt' = "released"
    /\ destroyInstance' = destroyInstance + 1
    /\ ret' = Ret("encoder_drop", "unit", 0, 0, <<>>)
    /\ UNCHANGED <<cw, fed, accepted, emitted, faults, innerOut>>
    /\ UNCHANGED <<drVars, crVars, dwVars, paramVars>>

\* WriterPanicked::into_inner (encode.rs): the encoder comes out of the
\* error into_parts returned when the fault flag was set.
CWWriterPanickedIntoInner ==
    /\ cwSt = "parts"
    /\ ret.op = "cw_into_parts" /\ ret.tag = "WriterPanicked"
    /\ ret' = Ret("cw_panicked_into_inner", "ok", 0, 0, <<>>)
    /\ UNCHANGED <<cw, cwSt, fed, accepted, emitted, faults>>
    /\ UNCHANGED <<destroyInstance, innerOut>>
    /\ UNCHANGED <<drVars, crVars, dwVars, paramVars>>

\* ------------------------------------------------------ DecompressorReader
\* dr_read that takes "needs more input at end of source" for the end of
\* the stream.
RECURSIVE dr_read_EofOk(_, _, _)
dr_read_EofOk(r, cap, f) ==
    (IF f < MaxFaults
     THEN {[r |-> r, tag |-> "ioerr", n |-> 0, out |-> <<>>, f |-> f + 1]}
     ELSE {})
    \cup
    LET input == fill_buf(r.inner)
        eof   == input.slice = <<>>
        d     == decompress(r.decoder, input.slice, cap)
        r1    == [inner |-> consume(input.inner, d.bytes_read), decoder |-> d.dec]
    IN  IF ~d.ok THEN
            {[r |-> [inner |-> input.inner, decoder |-> d.dec],
              tag |-> "decerr", n |-> 0, out |-> <<>>, f |-> f]}
        ELSE IF d.bytes_written > 0 THEN
            {[r |-> r1, tag |-> "ok", n |-> d.bytes_written, out |-> d.out, f |-> f]}
        ELSE IF d.info = "Finished" \/ (d.info = "NeedsMoreInput" /\ eof) THEN
            {[r |-> r1, tag |-> "ok", n |-> 0, out |-> <<>>, f |-> f]}
        ELSE IF d.info = "NeedsMoreInput" THEN
            dr_read_EofOk(r1, cap, f)
        ELSE IF cap = 0 THEN
            {[r |-> r1, tag |-> "ok", n |-> 0, out |-> <<>>, f |-> f]}
        ELSE
            {[r |-> r1, tag |-> "panic", n |-> 0, out |-> <<>>, f |-> f]}

\* dr_read without the arm for an empty buffer: NeedsMoreOutput with nothing
\* written always panics.
RECURSIVE dr_read_NoEmptyArm(_, _, _)
dr_read_NoEmptyArm(r, cap, f) ==
    (IF f < MaxFaults
     THEN {[r |-> r, tag |-> "ioerr", n |-> 0, out |-> <<>>, f |-> f + 1]}
     ELSE {})
    \cup
    LET input == fill_buf(r.inner)
        eof   == input.slice = <<>>
        d     == decompress(r.decoder, input.slice, cap)
        r1    == [inner |-> consume(input.inner, d.bytes_read), decoder |-> d.dec]
    IN  IF ~d.ok THEN
            {[r |-> [inner |-> input.inner, decoder |-> d.dec],
              tag |-> "decerr", n |-> 0, out |-> <<>>, f |-> f]}
        ELSE IF d.bytes_written > 0 THEN
            {[r |-> r1, tag |-> "ok", n |-> d.bytes_written, out |-> d.out, f |-> f]}
        ELSE IF d.info = "Finished" THEN
            {[r |-> r1, tag |-> "ok", n |-> 0, out |-> <<>>, f |-> f]}
        ELSE IF d.info = "NeedsMoreInput" /\ eof THEN
            {[r |-> r1, tag |-> "UnexpectedEof", n |-> 0, out |-> <<>>, f |-> f]}
        ELSE IF d.info = "NeedsMoreInput" THEN
            dr_read_NoEmptyArm(r1, cap, f)
        ELSE
            {[r |-> r1, tag |-> "panic", n |-> 0, out |-> <<>>, f |-> f]}

\* dr_read that consumes the whole slice it was shown instead of the bytes
\* the decoder read (`consume(input.len())`).
RECURSIVE dr_read_ConsumeAll(_, _, _)
dr_read_ConsumeAll(r, cap, f) ==
    (IF f < MaxFaults
     THEN {[r |-> r, tag |-> "ioerr", n |-> 0, out |-> <<>>, f |-> f + 1]}
     ELSE {})
    \cup
    LET input == fill_buf(r.inner)
        eof   == input.slice = <<>>
        d     == decompress(r.decoder, input.slice, cap)
        r1    == [inner |-> consume(input.inner, Len(input.slice)),
                  decoder |-> d.dec]
    IN  IF ~d.ok THEN
            {[r |-> [inner |-> input.inner, decoder |-> d.dec],
              tag |-> "decerr", n |-> 0, out |-> <<>>, f |-> f]}
        ELSE IF d.bytes_written > 0 THEN
            {[r |-> r1, tag |-> "ok", n |-> d.bytes_written, out |-> d.out, f |-> f]}
        ELSE IF d.info = "Finished" THEN
            {[r |-> r1, tag |-> "ok", n |-> 0, out |-> <<>>, f |-> f]}
        ELSE IF d.info = "NeedsMoreInput" /\ eof THEN
            {[r |-> r1, tag |-> "UnexpectedEof", n |-> 0, out |-> <<>>, f |-> f]}
        ELSE IF d.info = "NeedsMoreInput" THEN
            dr_read_ConsumeAll(r1, cap, f)
        ELSE IF cap = 0 THEN
            {[r |-> r1, tag |-> "ok", n |-> 0, out |-> <<>>, f |-> f]}
        ELSE
            {[r |-> r1, tag |-> "panic", n |-> 0, out |-> <<>>, f |-> f]}

\* dr_read that matches on the decoder's info before looking at the bytes
\* written, so NeedsMoreOutput with a non-empty buffer reaches the panic.
RECURSIVE dr_read_InfoFirst(_, _, _)
dr_read_InfoFirst(r, cap, f) ==
    (IF f < MaxFaults
     THEN {[r |-> r, tag |-> "ioerr", n |-> 0, out |-> <<>>, f |-> f + 1]}
     ELSE {})
    \cup
    LET input == fill_buf(r.inner)
        eof   == input.slice = <<>>
        d     == decompress(r.decoder, input.slice, cap)
        r1    == [inner |-> consume(input.inner, d.bytes_read), decoder |-> d.dec]
    IN  IF ~d.ok THEN
            {[r |-> [inner |-> input.inner, decoder |-> d.dec],
              tag |-> "decerr", n |-> 0, out |-> <<>>, f |-> f]}
        ELSE IF d.info = "NeedsMoreOutput" /\ cap = 0 THEN
            {[r |-> r1, tag |-> "ok", n |-> 0, out |-> <<>>, f |-> f]}
        ELSE IF d.info = "NeedsMoreOutput" THEN
            {[r |-> r1, tag |-> "panic", n |-> 0, out |-> <<>>, f |-> f]}
        ELSE IF d.bytes_written > 0 THEN
            {[r |-> r1, tag |-> "ok", n |-> d.bytes_written, out |-> d.out, f |-> f]}
        ELSE IF d.info = "Finished" THEN
            {[r |-> r1, tag |-> "ok", n |-> 0, out |-> <<>>, f |-> f]}
        ELSE IF eof THEN
            {[r |-> r1, tag |-> "UnexpectedEof", n |-> 0, out |-> <<>>, f |-> f]}
        ELSE
            dr_read_InfoFirst(r1, cap, f)

\* Read::read for DecompressorReader: every outcome of the loop.  fill_buf
\* may fail (the `?`), which returns the error with nothing consumed.
RECURSIVE dr_read(_, _, _)
dr_read(r, cap, f) ==
    (IF f < MaxFaults
     THEN {[r |-> r, tag |-> "ioerr", n |-> 0, out |-> <<>>, f |-> f + 1]}
     ELSE {})
    \cup
    LET input == fill_buf(r.inner)
        eof   == input.slice = <<>>
        d     == decompress(r.decoder, input.slice, cap)
        r1    == [inner |-> consume(input.inner, d.bytes_read), decoder |-> d.dec]
    IN  IF ~d.ok THEN
            {[r |-> [inner |-> input.inner, decoder |-> d.dec],
              tag |-> "decerr", n |-> 0, out |-> <<>>, f |-> f]}
        ELSE IF d.bytes_written > 0 THEN
            {[r |-> r1, tag |-> "ok", n |-> d.bytes_written, out |-> d.out, f |-> f]}
        ELSE IF d.info = "Finished" THEN
            {[r |-> r1, tag |-> "ok", n |-> 0, out |-> <<>>, f |-> f]}
        ELSE IF d.info = "NeedsMoreInput" /\ eof THEN
            {[r |-> r1, tag |-> "UnexpectedEof", n |-> 0, out |-> <<>>, f |-> f]}
        ELSE IF d.info = "NeedsMoreInput" THEN
            dr_read(r1, cap, f)
        ELSE IF cap = 0 THEN
            {[r |-> r1, tag |-> "ok", n |-> 0, out |-> <<>>, f |-> f]}
        ELSE
            {[r |-> r1, tag |-> "panic", n |-> 0, out |-> <<>>, f |-> f]}

\* DecompressorReader::new over the first k bytes of a coded stream: the one
\* the CompressorWriter's sink received, or the one read from the
\* CompressorReader before it was given up.
DRNew(k, fill) ==
    /\ cwSt = "taken" \/ crSt \in {"taken", "parts"}
    /\ drSt = "none" /\ dwSt = "none"
    /\ drSt' = "open"
    /\ LET stream == IF cwSt = "taken" THEN cw.inner ELSE coded IN
       /\ upstream' = Take(stream, k)
       /\ dr' = [inner |-> Source(Take(stream, k), fill), decoder |-> NewDecoder]
    /\ delivered' = <<>>
    /\ ret' = Ret("dr_new", "ok", 0, 0, <<>>)
    /\ UNCHANGED <<faults>>
    /\ UNCHANGED <<cwVars, crVars, dwVars, paramVars>>

DRRead(cap) ==
    /\ drSt = "open"
    /\ \E r \in dr_read(dr, cap, faults) :
           /\ dr' = r.r
           /\ faults' = r.f
           /\ delivered' = delivered \o r.out
           /\ ret' = Ret("dr_read", r.tag, r.n, cap, <<>>)
    /\ UNCHANGED <<drSt, upstream>>
    /\ UNCHANGED <<cwVars, crVars, dwVars, paramVars>>

\* DRIntoInner that hands out the source without asking the decoder.
DRIntoInner_NoCheck ==
    /\ drSt = "open"
    /\ drSt' = "taken"
    /\ ret' = Ret("dr_into_inner", "ok", 0, 0, <<>>)
    /\ UNCHANGED <<dr, upstream, delivered, faults>>
    /\ UNCHANGED <<cwVars, crVars, dwVars, paramVars>>

\* DecompressorReader::into_inner.
DRIntoInner ==
    /\ drSt = "open"
    /\ IF dec_is_finished(dr.decoder)
       THEN /\ drSt' = "taken"
            /\ ret' = Ret("dr_into_inner", "ok", 0, 0, <<>>)
       ELSE /\ drSt' = "error"
            /\ ret' = Ret("dr_into_inner", "UnexpectedEof", 0, 0, <<>>)
    /\ UNCHANGED <<dr, upstream, delivered, faults>>
    /\ UNCHANGED <<cwVars, crVars, dwVars, paramVars>>

\* IntoInnerError::into_inner on the error of DecompressorReader::into_inner.
DRErrorIntoInner ==
    /\ drSt = "error"
    /\ drSt' = "open"
    /\ ret' = Ret("dr_error_into_inner", "ok", 0, 0, <<>>)
    /\ UNCHANGED <<dr, upstream, delivered, faults>>
    /\ UNCHANGED <<cwVars, crVars, dwVars, paramVars>>

\* -------------------------------------------------------- CompressorReader
\* cr_read that reports the end at the source's EOF without ever
\* switching the operation to Finish.
RECURSIVE cr_read_NoFinish(_, _, _, _)
cr_read_NoFinish(r, cap, f, feeds) ==
    (IF f < MaxFaults
     THEN {[r |-> r, tag |-> "ioerr", n |-> 0, out |-> <<>>, f |-> f + 1,
            feeds |-> feeds]}
     ELSE {})
    \cup
    LET input == fill_buf(r.inner)
        eof   == input.slice = <<>>
        c     == compress(r.encoder, input.slice, cap, r.op)
        fs    == Append(feeds, FeedOut(r.op, Len(input.slice), c.bytes_written))
        r1    == [r EXCEPT !.inner = consume(input.inner, c.bytes_read),
                           !.encoder = c.enc]
    IN  IF ~c.ok THEN
            {[r |-> [r EXCEPT !.inner = input.inner], tag |-> "encerr",
              n |-> 0, out |-> <<>>, f |-> f, feeds |-> fs]}
        ELSE IF c.bytes_written > 0 THEN
            {[r |-> r1, tag |-> "ok", n |-> c.bytes_written, out |-> c.out,
              f |-> f, feeds |-> fs]}
        ELSE IF cap = 0 \/ eof THEN
            {[r |-> r1, tag |-> "ok", n |-> 0, out |-> <<>>, f |-> f,
              feeds |-> fs]}
        ELSE cr_read_NoFinish(r1, cap, f, fs)

\* cr_read that tests the end of the source before the caller's buffer, so
\* a read into an empty buffer at the source's EOF switches to Finish.
RECURSIVE cr_read_EofFirst(_, _, _, _)
cr_read_EofFirst(r, cap, f, feeds) ==
    (IF f < MaxFaults
     THEN {[r |-> r, tag |-> "ioerr", n |-> 0, out |-> <<>>, f |-> f + 1,
            feeds |-> feeds]}
     ELSE {})
    \cup
    LET input == fill_buf(r.inner)
        eof   == input.slice = <<>>
        c     == compress(r.encoder, input.slice, cap, r.op)
        fs    == Append(feeds, FeedOut(r.op, Len(input.slice), c.bytes_written))
        r1    == [r EXCEPT !.inner = consume(input.inner, c.bytes_read),
                           !.encoder = c.enc]
    IN  IF ~c.ok THEN
            {[r |-> [r EXCEPT !.inner = input.inner], tag |-> "encerr",
              n |-> 0, out |-> <<>>, f |-> f, feeds |-> fs]}
        ELSE IF c.bytes_written > 0 THEN
            {[r |-> r1, tag |-> "ok", n |-> c.bytes_written, out |-> c.out,
              f |-> f, feeds |-> fs]}
        ELSE IF eof /\ r.op = "Process" THEN
            cr_read_EofFirst([r1 EXCEPT !.op = "Finish"], cap, f, fs)
        ELSE IF cap = 0 THEN
            {[r |-> r1, tag |-> "ok", n |-> 0, out |-> <<>>, f |-> f,
              feeds |-> fs]}
        ELSE IF ~eof THEN
            cr_read_EofFirst(r1, cap, f, fs)
        ELSE
            {[r |-> r1, tag |-> "ok", n |-> 0, out |-> <<>>, f |-> f,
              feeds |-> fs]}

\* cr_read that switches to Finish at the first pass that wrote nothing,
\* whether or not the source is at its end.
RECURSIVE cr_read_FinishEarly(_, _, _, _)
cr_read_FinishEarly(r, cap, f, feeds) ==
    (IF f < MaxFaults
     THEN {[r |-> r, tag |-> "ioerr", n |-> 0, out |-> <<>>, f |-> f + 1,
            feeds |-> feeds]}
     ELSE {})
    \cup
    LET input == fill_buf(r.inner)
        eof   == input.slice = <<>>
        c     == compress(r.encoder, input.slice, cap, r.op)
        fs    == Append(feeds, FeedOut(r.op, Len(input.slice), c.bytes_written))
        r1    == [r EXCEPT !.inner = consume(input.inner, c.bytes_read),
                           !.encoder = c.enc]
    IN  IF ~c.ok THEN
            {[r |-> [r EXCEPT !.inner = input.inner], tag |-> "encerr",
              n |-> 0, out |-> <<>>, f |-> f, feeds |-> fs]}
        ELSE IF c.bytes_written > 0 THEN
            {[r |-> r1, tag |-> "ok", n |-> c.bytes_written, out |-> c.out,
              f |-> f, feeds |-> fs]}
        ELSE IF cap = 0 THEN
            {[r |-> r1, tag |-> "ok", n |-> 0, out |-> <<>>, f |-> f,
              feeds |-> fs]}
        ELSE IF r.op = "Process" THEN
            cr_read_FinishEarly([r1 EXCEPT !.op = "Finish"], cap, f, fs)
        ELSE IF ~eof THEN
            cr_read_FinishEarly(r1, cap, f, fs)
        ELSE
            {[r |-> r1, tag |-> "ok", n |-> 0, out |-> <<>>, f |-> f,
              feeds |-> fs]}

\* cr_read that switches to Finish at the source's EOF and returns Ok(0)
\* at once instead of continuing the loop.
RECURSIVE cr_read_NoContinue(_, _, _, _)
cr_read_NoContinue(r, cap, f, feeds) ==
    (IF f < MaxFaults
     THEN {[r |-> r, tag |-> "ioerr", n |-> 0, out |-> <<>>, f |-> f + 1,
            feeds |-> feeds]}
     ELSE {})
    \cup
    LET input == fill_buf(r.inner)
        eof   == input.slice = <<>>
        c     == compress(r.encoder, input.slice, cap, r.op)
        fs    == Append(feeds, FeedOut(r.op, Len(input.slice), c.bytes_written))
        r1    == [r EXCEPT !.inner = consume(input.inner, c.bytes_read),
                           !.encoder = c.enc]
    IN  IF ~c.ok THEN
            {[r |-> [r EXCEPT !.inner = input.inner], tag |-> "encerr",
              n |-> 0, out |-> <<>>, f |-> f, feeds |-> fs]}
        ELSE IF c.bytes_written > 0 THEN
            {[r |-> r1, tag |-> "ok", n |-> c.bytes_written, out |-> c.out,
              f |-> f, feeds |-> fs]}
        ELSE IF cap = 0 THEN
            {[r |-> r1, tag |-> "ok", n |-> 0, out |-> <<>>, f |-> f,
              feeds |-> fs]}
        ELSE IF ~eof THEN
            cr_read_NoContinue(r1, cap, f, fs)
        ELSE
            {[r |-> [r1 EXCEPT !.op = "Finish"], tag |-> "ok", n |-> 0,
              out |-> <<>>, f |-> f, feeds |-> fs]}

\* cr_read without the arm that returns Ok(0) for an empty buffer.
RECURSIVE cr_read_NoEmptyArm(_, _, _, _)
cr_read_NoEmptyArm(r, cap, f, feeds) ==
    (IF f < MaxFaults
     THEN {[r |-> r, tag |-> "ioerr", n |-> 0, out |-> <<>>, f |-> f + 1,
            feeds |-> feeds]}
     ELSE {})
    \cup
    LET input == fill_buf(r.inner)
        eof   == input.slice = <<>>
        c     == compress(r.encoder, input.slice, cap, r.op)
        fs    == Append(feeds, FeedOut(r.op, Len(input.slice), c.bytes_written))
        r1    == [r EXCEPT !.inner = consume(input.inner, c.bytes_read),
                           !.encoder = c.enc]
    IN  IF ~c.ok THEN
            {[r |-> [r EXCEPT !.inner = input.inner], tag |-> "encerr",
              n |-> 0, out |-> <<>>, f |-> f, feeds |-> fs]}
        ELSE IF c.bytes_written > 0 THEN
            {[r |-> r1, tag |-> "ok", n |-> c.bytes_written, out |-> c.out,
              f |-> f, feeds |-> fs]}
        ELSE IF ~eof THEN
            cr_read_NoEmptyArm(r1, cap, f, fs)
        ELSE IF r.op = "Process" THEN
            cr_read_NoEmptyArm([r1 EXCEPT !.op = "Finish"], cap, f, fs)
        ELSE
            {[r |-> r1, tag |-> "ok", n |-> 0, out |-> <<>>, f |-> f,
              feeds |-> fs]}

\* Read::read for CompressorReader: every outcome of the loop.  fill_buf
\* may fail (the `?`), which returns the error with nothing consumed.
RECURSIVE cr_read(_, _, _, _)
cr_read(r, cap, f, feeds) ==
    (IF f < MaxFaults
     THEN {[r |-> r, tag |-> "ioerr", n |-> 0, out |-> <<>>, f |-> f + 1,
            feeds |-> feeds]}
     ELSE {})
    \cup
    LET input == fill_buf(r.inner)
        eof   == input.slice = <<>>
        c     == compress(r.encoder, input.slice, cap, r.op)
        fs    == Append(feeds, FeedOut(r.op, Len(input.slice), c.bytes_written))
        r1    == [r EXCEPT !.inner = consume(input.inner, c.bytes_read),
                           !.encoder = c.enc]
    IN  IF ~c.ok THEN
            {[r |-> [r EXCEPT !.inner = input.inner], tag |-> "encerr",
              n |-> 0, out |-> <<>>, f |-> f, feeds |-> fs]}
        ELSE IF c.bytes_written > 0 THEN
            {[r |-> r1, tag |-> "ok", n |-> c.bytes_written, out |-> c.out,
              f |-> f, feeds |-> fs]}
        ELSE IF cap = 0 THEN
            {[r |-> r1, tag |-> "ok", n |-> 0, out |-> <<>>, f |-> f,
              feeds |-> fs]}
        ELSE IF ~eof THEN
            cr_read(r1, cap, f, fs)
        ELSE IF r.op = "Process" THEN
            cr_read([r1 EXCEPT !.op = "Finish"], cap, f, fs)
        ELSE IF r.op = "Finish" THEN
            {[r |-> r1, tag |-> "ok", n |-> 0, out |-> <<>>, f |-> f,
              feeds |-> fs]}
        ELSE
            {[r |-> r1, tag |-> "panic", n |-> 0, out |-> <<>>, f |-> f,
              feeds |-> fs]}

CRRead(cap) ==
    /\ crSt = "open"
    /\ \E r \in cr_read(cr, cap, faults, <<>>) :
           /\ cr' = r.r
           /\ faults' = r.f
           /\ coded' = coded \o r.out
           /\ crEof' = (crEof \/ (r.tag = "ok" /\ r.n = 0 /\ cap > 0))
           /\ ret' = Ret("cr_read", r.tag, r.n, cap, r.feeds)
    /\ UNCHANGED <<crSt, src0>>
    /\ UNCHANGED <<cwVars, drVars, dwVars, paramVars>>

\* One pass of the loop of read with a Finish arm that continues instead
\* of returning Ok(0).
cr_read_pass_FinishContinues(r, cap, f) ==
    (IF f < MaxFaults
     THEN {[r |-> r, tag |-> "ioerr", n |-> 0, out |-> <<>>, f |-> f + 1,
            feed |-> <<>>, done |-> TRUE]}
     ELSE {})
    \cup
    LET input == fill_buf(r.inner)
        eof   == input.slice = <<>>
        c     == compress(r.encoder, input.slice, cap, r.op)
        fd    == <<FeedOut(r.op, Len(input.slice), c.bytes_written)>>
        r1    == [r EXCEPT !.inner = consume(input.inner, c.bytes_read),
                           !.encoder = c.enc]
    IN  IF ~c.ok THEN
            {[r |-> [r EXCEPT !.inner = input.inner], tag |-> "encerr",
              n |-> 0, out |-> <<>>, f |-> f, feed |-> fd, done |-> TRUE]}
        ELSE IF c.bytes_written > 0 THEN
            {[r |-> r1, tag |-> "ok", n |-> c.bytes_written, out |-> c.out,
              f |-> f, feed |-> fd, done |-> TRUE]}
        ELSE IF cap = 0 THEN
            {[r |-> r1, tag |-> "ok", n |-> 0, out |-> <<>>, f |-> f,
              feed |-> fd, done |-> TRUE]}
        ELSE IF ~eof THEN
            {[r |-> r1, tag |-> "continue", n |-> 0, out |-> <<>>, f |-> f,
              feed |-> fd, done |-> FALSE]}
        ELSE
            {[r |-> [r1 EXCEPT !.op = "Finish"], tag |-> "continue", n |-> 0,
              out |-> <<>>, f |-> f, feed |-> fd, done |-> FALSE]}

\* One pass of the loop of Read::read for CompressorReader: the pull, the
\* feed, the consume and the match; done tells that the pass returned, and
\* otherwise the loop continues from r.
cr_read_pass(r, cap, f) ==
    (IF f < MaxFaults
     THEN {[r |-> r, tag |-> "ioerr", n |-> 0, out |-> <<>>, f |-> f + 1,
            feed |-> <<>>, done |-> TRUE]}
     ELSE {})
    \cup
    LET input == fill_buf(r.inner)
        eof   == input.slice = <<>>
        c     == compress(r.encoder, input.slice, cap, r.op)
        fd    == <<FeedOut(r.op, Len(input.slice), c.bytes_written)>>
        r1    == [r EXCEPT !.inner = consume(input.inner, c.bytes_read),
                           !.encoder = c.enc]
    IN  IF ~c.ok THEN
            {[r |-> [r EXCEPT !.inner = input.inner], tag |-> "encerr",
              n |-> 0, out |-> <<>>, f |-> f, feed |-> fd, done |-> TRUE]}
        ELSE IF c.bytes_written > 0 THEN
            {[r |-> r1, tag |-> "ok", n |-> c.bytes_written, out |-> c.out,
              f |-> f, feed |-> fd, done |-> TRUE]}
        ELSE IF cap = 0 THEN
            {[r |-> r1, tag |-> "ok", n |-> 0, out |-> <<>>, f |-> f,
              feed |-> fd, done |-> TRUE]}
        ELSE IF ~eof THEN
            {[r |-> r1, tag |-> "continue", n |-> 0, out |-> <<>>, f |-> f,
              feed |-> fd, done |-> FALSE]}
        ELSE IF r.op = "Process" THEN
            {[r |-> [r1 EXCEPT !.op = "Finish"], tag |-> "continue", n |-> 0,
              out |-> <<>>, f |-> f, feed |-> fd, done |-> FALSE]}
        ELSE IF r.op = "Finish" THEN
            {[r |-> r1, tag |-> "ok", n |-> 0, out |-> <<>>, f |-> f,
              feed |-> fd, done |-> TRUE]}
        ELSE
            {[r |-> r1, tag |-> "panic", n |-> 0, out |-> <<>>, f |-> f,
              feed |-> fd, done |-> TRUE]}

\* A call of read enters the loop with a buffer of capacity cap.
CRReadEnter(cap) ==
    /\ crSt = "open"
    /\ crSt' = "reading"
    /\ ret' = Ret("cr_read_enter", "pending", 0, cap, <<>>)
    /\ UNCHANGED <<cr, src0, coded, crEof, faults>>
    /\ UNCHANGED <<cwVars, drVars, dwVars, paramVars>>

\* The call in progress makes one pass of its loop; ret keeps the capacity
\* and the feed of the latest pass.
CRReadPass ==
    /\ crSt = "reading"
    /\ \E p \in cr_read_pass(cr, ret.cap, faults) :
           /\ cr' = p.r
           /\ faults' = p.f
           /\ coded' = coded \o p.out
           /\ IF p.done
              THEN /\ crSt' = "open"
                   /\ crEof' = (crEof \/ (p.tag = "ok" /\ p.n = 0 /\ ret.cap > 0))
                   /\ ret' = Ret("cr_read", p.tag, p.n, ret.cap, p.feed)
              ELSE /\ ret' = [ret EXCEPT !.feeds = p.feed]
                   /\ UNCHANGED <<crSt, crEof>>
    /\ UNCHANGED src0
    /\ UNCHANGED <<cwVars, drVars, dwVars, paramVars>>

\* CompressorReader::into_inner.
CRIntoInner ==
    /\ crSt = "open"
    /\ IF is_finished(cr.encoder)
       THEN /\ crSt' = "taken"
            /\ ret' = Ret("cr_into_inner", "ok", 0, 0, <<>>)
       ELSE /\ crSt' = "error"
            /\ ret' = Ret("cr_into_inner", "UnexpectedEof", 0, 0, <<>>)
    /\ UNCHANGED <<cr, src0, coded, crEof, faults>>
    /\ UNCHANGED <<cwVars, drVars, dwVars, paramVars>>

\* IntoInnerError::into_inner on the error of CompressorReader::into_inner.
CRErrorIntoInner ==
    /\ crSt = "error"
    /\ crSt' = "open"
    /\ ret' = Ret("cr_error_into_inner", "ok", 0, 0, <<>>)
    /\ UNCHANGED <<cr, src0, coded, crEof, faults>>
    /\ UNCHANGED <<cwVars, drVars, dwVars, paramVars>>

\* CompressorReader::into_parts.
CRIntoParts ==
    /\ crSt = "open"
    /\ crSt' = "parts"
    /\ ret' = Ret("cr_into_parts", "ok", 0, 0, <<>>)
    /\ UNCHANGED <<cr, src0, coded, crEof, faults>>
    /\ UNCHANGED <<cwVars, drVars, dwVars, paramVars>>

\* ------------------------------------------------------ DecompressorWriter
NewDecompressorWriter ==
    [inner |-> <<>>, decoder |-> NewDecoder, panicked |-> FALSE]

\* dw_write_chunk with the flag lowered only on success.
dw_write_chunk_FlagKept(w, chunk, f) ==
    {[w |-> [w EXCEPT !.inner = @ \o chunk, !.panicked = FALSE],
      tag |-> "ok", f |-> f]}
    \cup
    (IF f < MaxFaults
     THEN {[w |-> [w EXCEPT !.inner = @ \o Take(chunk, j), !.panicked = TRUE],
            tag |-> t, f |-> f + 1] :
              j \in 0..(Len(chunk) - 1), t \in {"ioerr", "panic"}}
     ELSE {})

\* Write::write_all on the inner sink with the fault flag raised around it.
dw_write_chunk(w, chunk, f) ==
    {[w |-> [w EXCEPT !.inner = @ \o chunk, !.panicked = FALSE],
      tag |-> "ok", f |-> f]}
    \cup
    (IF f < MaxFaults
     THEN {[w |-> [w EXCEPT !.inner = @ \o Take(chunk, j), !.panicked = FALSE],
            tag |-> "ioerr", f |-> f + 1] : j \in 0..(Len(chunk) - 1)}
          \cup
          {[w |-> [w EXCEPT !.inner = @ \o Take(chunk, j), !.panicked = TRUE],
            tag |-> "panic", f |-> f + 1] : j \in 0..(Len(chunk) - 1)}
     ELSE {})

\* DecompressorWriter::flush_decoder_output: every outcome of the drain loop.
RECURSIVE dw_flush_decoder_output(_, _)
dw_flush_decoder_output(w, f) ==
    IF ~dec_has_output(w.decoder) THEN {[w |-> w, tag |-> "ok", f |-> f]}
    ELSE UNION {
        LET t  == dec_take_output(w.decoder, k)
            rs == dw_write_chunk([w EXCEPT !.decoder = t.dec], t.chunk, f)
        IN UNION {IF r.tag = "ok" THEN dw_flush_decoder_output(r.w, r.f)
                  ELSE {r} : r \in rs}
        : k \in 1..Len(w.decoder.ring)}

\* DecompressorWriter::new, fed with the coded bytes the CompressorReader
\* returned before it was given up.
DWNew ==
    /\ crSt \in {"taken", "parts"}
    /\ dwSt = "none" /\ drSt = "none"
    /\ dwSt' = "open"
    /\ dw' = NewDecompressorWriter
    /\ drem' = coded
    /\ ret' = Ret("dw_new", "ok", 0, 0, <<>>)
    /\ UNCHANGED faults
    /\ UNCHANGED <<cwVars, drVars, crVars, paramVars>>

\* DWWrite that reports the whole buffer as consumed (`Ok(buf.len())`).
DWWrite_ReportsAll(k) ==
    /\ dwSt = "open"
    /\ LET buf == Take(drem, k)
           g   == dec_give_input(dw.decoder, buf) IN
       IF ~g.ok THEN
           /\ dw' = [dw EXCEPT !.decoder = g.dec]
           /\ ret' = Ret("dw_write", "decerr", 0, k, <<Feed("Decode", k)>>)
           /\ UNCHANGED <<drem, faults>>
       ELSE \E r \in dw_flush_decoder_output([dw EXCEPT !.decoder = g.dec], faults) :
           /\ dw' = r.w
           /\ faults' = r.f
           /\ drem' = IF r.tag = "ok" THEN Drop(drem, k) ELSE drem
           /\ ret' = Ret("dw_write", r.tag, IF r.tag = "ok" THEN k ELSE 0,
                         k, <<Feed("Decode", k)>>)
    /\ UNCHANGED dwSt
    /\ UNCHANGED <<cwVars, drVars, crVars, paramVars>>

\* DWWrite that returns the number of decoded bytes it wrote to the sink
\* in place of the number of coded bytes the decoder read.
DWWrite_CountsOutput(k) ==
    /\ dwSt = "open"
    /\ LET buf == Take(drem, k)
           g   == dec_give_input(dw.decoder, buf) IN
       IF ~g.ok THEN
           /\ dw' = [dw EXCEPT !.decoder = g.dec]
           /\ ret' = Ret("dw_write", "decerr", 0, k, <<Feed("Decode", k)>>)
           /\ UNCHANGED <<drem, faults>>
       ELSE \E r \in dw_flush_decoder_output([dw EXCEPT !.decoder = g.dec], faults) :
           /\ dw' = r.w
           /\ faults' = r.f
           /\ drem' = IF r.tag = "ok" THEN Drop(drem, g.bytes_read) ELSE drem
           /\ ret' = Ret("dw_write", r.tag,
                         IF r.tag = "ok" THEN Len(g.dec.ring) ELSE 0,
                         k, <<Feed("Decode", k)>>)
    /\ UNCHANGED dwSt
    /\ UNCHANGED <<cwVars, drVars, crVars, paramVars>>

\* Write::write for DecompressorWriter on the next k bytes the caller holds;
\* the caller advances by the count returned.
DWWrite(k) ==
    /\ dwSt = "open"
    /\ LET buf == Take(drem, k)
           g   == dec_give_input(dw.decoder, buf) IN
       IF ~g.ok THEN
           /\ dw' = [dw EXCEPT !.decoder = g.dec]
           /\ ret' = Ret("dw_write", "decerr", 0, k, <<Feed("Decode", k)>>)
           /\ UNCHANGED <<drem, faults>>
       ELSE \E r \in dw_flush_decoder_output([dw EXCEPT !.decoder = g.dec], faults) :
           /\ dw' = r.w
           /\ faults' = r.f
           /\ drem' = IF r.tag = "ok" THEN Drop(drem, g.bytes_read) ELSE drem
           /\ ret' = Ret("dw_write", r.tag, IF r.tag = "ok" THEN g.bytes_read ELSE 0,
                         k, <<Feed("Decode", k)>>)
    /\ UNCHANGED dwSt
    /\ UNCHANGED <<cwVars, drVars, crVars, paramVars>>

\* Write::flush for DecompressorWriter: only the inner sink's flush.
DWFlush ==
    /\ dwSt = "open"
    /\ \E i \in inner_flush(faults) :
           /\ faults' = i.f
           /\ ret' = [Ret("dw_flush", i.tag, 0, 0, <<>>) EXCEPT !.flushed = TRUE]
    /\ UNCHANGED <<dw, dwSt, drem>>
    /\ UNCHANGED <<cwVars, drVars, crVars, paramVars>>

\* DecompressorWriter::into_inner.
DWIntoInner ==
    /\ dwSt = "open"
    /\ IF dec_is_finished(dw.decoder)
       THEN /\ dwSt' = "taken"
            /\ ret' = Ret("dw_into_inner", "ok", 0, 0, <<>>)
       ELSE /\ dwSt' = "error"
            /\ ret' = Ret("dw_into_inner", "UnexpectedEof", 0, 0, <<>>)
    /\ UNCHANGED <<dw, drem, faults>>
    /\ UNCHANGED <<cwVars, drVars, crVars, paramVars>>

\* IntoInnerError::into_inner on the error of DecompressorWriter::into_inner.
DWErrorIntoInner ==
    /\ dwSt = "error"
    /\ dwSt' = "open"
    /\ ret' = Ret("dw_error_into_inner", "ok", 0, 0, <<>>)
    /\ UNCHANGED <<dw, drem, faults>>
    /\ UNCHANGED <<cwVars, drVars, crVars, paramVars>>

\* DWIntoParts that returns Ok(decoder) whatever the fault flag says.
DWIntoParts_AlwaysOk ==
    /\ dwSt = "open"
    /\ dwSt' = "parts"
    /\ ret' = Ret("dw_into_parts", "ok", 0, 0, <<>>)
    /\ UNCHANGED <<dw, drem, faults>>
    /\ UNCHANGED <<cwVars, drVars, crVars, paramVars>>

\* DecompressorWriter::into_parts.
DWIntoParts ==
    /\ dwSt = "open"
    /\ dwSt' = "parts"
    /\ ret' = Ret("dw_into_parts", IF ~dw.panicked THEN "ok" ELSE "WriterPanicked",
                  0, 0, <<>>)
    /\ UNCHANGED <<dw, drem, faults>>
    /\ UNCHANGED <<cwVars, drVars, crVars, paramVars>>

\* WriterPanicked::into_inner (decode.rs): the decoder comes out of the
\* error into_parts returned when the fault flag was set.
DWWriterPanickedIntoInner ==
    /\ dwSt = "parts"
    /\ ret.op = "dw_into_parts" /\ ret.tag = "WriterPanicked"
    /\ ret' = Ret("dw_panicked_into_inner", "ok", 0, 0, <<>>)
    /\ UNCHANGED <<dw, dwSt, drem, faults>>
    /\ UNCHANGED <<cwVars, drVars, crVars, paramVars>>

\* ------------------------------------------------------------ parameters
BROTLI_MIN_QUALITY == 0
BROTLI_MAX_QUALITY == 11
BROTLI_MIN_WINDOW_BITS == 10
BROTLI_MAX_WINDOW_BITS == 24
BROTLI_LARGE_MAX_WINDOW_BITS == 30
BROTLI_MIN_INPUT_BLOCK_BITS == 16
BROTLI_MAX_INPUT_BLOCK_BITS == 24

BrotliEncoderMode_BROTLI_MODE_GENERIC == 0
BrotliEncoderMode_BROTLI_MODE_TEXT == 1
BrotliEncoderMode_BROTLI_MODE_FONT == 2

U8 == 0..255

\* enum CompressionMode, by discriminant (`mode as u32`).
CompressionMode ==
    {BrotliEncoderMode_BROTLI_MODE_GENERIC, BrotliEncoderMode_BROTLI_MODE_TEXT,
     BrotliEncoderMode_BROTLI_MODE_FONT}

\* Result<T, SetParameterError>.
Ok(v)  == [tag |-> "ok", value |-> v]
Err(e) == [tag |-> e, value |-> 0]

\* Quality::new.
Quality_new(level) ==
    IF level \in BROTLI_MIN_QUALITY..BROTLI_MAX_QUALITY
    THEN Ok(level) ELSE Err("InvalidQuality")

\* WindowSize_new with the upper limit one too high.
WindowSize_new_Max25(bits) ==
    IF bits \in BROTLI_MIN_WINDOW_BITS..(BROTLI_MAX_WINDOW_BITS + 1)
    THEN Ok(bits) ELSE Err("InvalidWindowSize")

\* WindowSize::new.
WindowSize_new(bits) ==
    IF bits \in BROTLI_MIN_WINDOW_BITS..BROTLI_MAX_WINDOW_BITS
    THEN Ok(bits) ELSE Err("InvalidWindowSize")

\* LargeWindowSize_new with the upper limit of the ordinary window.
LargeWindowSize_new_Max24(bits) ==
    IF bits \in BROTLI_MIN_WINDOW_BITS..BROTLI_MAX_WINDOW_BITS
    THEN Ok(bits) ELSE Err("InvalidWindowSize")

\* LargeWindowSize::new.
LargeWindowSize_new(bits) ==
    IF bits \in BROTLI_MIN_WINDOW_BITS..BROTLI_LARGE_MAX_WINDOW_BITS
    THEN Ok(bits) ELSE Err("InvalidWindowSize")

\* BlockSize::new.
BlockSize_new(bits) ==
    IF bits \in BROTLI_MIN_INPUT_BLOCK_BITS..BROTLI_MAX_INPUT_BLOCK_BITS
    THEN Ok(bits) ELSE Err("InvalidBlockSize")

\* Option<T>: None, or Some(v).
None    == <<>>
Some(v) == <<v>>

\* u32 `a << n` and u32 `a & b`.  configure shifts 15 and 1 by at most 3 and
\* 1 by 30, so no bit leaves the 32.
Shl(a, n) == a * (2 ^ n)

RECURSIVE BitAnd(_, _)
BitAnd(a, b) ==
    IF a = 0 \/ b = 0 THEN 0
    ELSE (a % 2) * (b % 2) + 2 * BitAnd(a \div 2, b \div 2)

\* BrotliEncoderOptions::new.
NewOptions ==
    [mode |-> None, quality |-> None, window_size |-> None,
     block_bits |-> None, disable_context_modeling |-> None,
     size_hint |-> None, postfix_bits |-> None,
     direct_distance_codes |-> None, stream_offset |-> None]

\* BrotliEncoderSetParameter on a new instance, for a recognised parameter
\* and a value in its documented range: accepted.
BrotliEncoderSetParameter(key, value) == TRUE

\* BrotliEncoder::set_param, continuing with `next` when it returns Ok:
\* c is the configuration so far, the parameters set and the result.
set_param(c, key, value) ==
    IF c.res.tag # "ok" THEN c
    ELSE IF BrotliEncoderSetParameter(key, value)
    THEN [c EXCEPT !.set = Append(@, <<key, value>>)]
    ELSE [c EXCEPT !.res = Err("Generic")]

\* The postfix test with its limit one too high.
postfix_rejected_Above4(postfix_bits) == postfix_bits > 4

\* configure's test of postfix_bits.
postfix_rejected(postfix_bits) == postfix_bits > 3

\* The direct distance codes test without the test of the step.
direct_rejected_NoStep(direct_distance_codes, postfix) ==
    direct_distance_codes > Shl(15, postfix)

\* configure's test of direct_distance_codes.
direct_rejected(direct_distance_codes, postfix) ==
    \/ direct_distance_codes > Shl(15, postfix)
    \/ BitAnd(direct_distance_codes, Shl(1, postfix) - 1) # 0

\* The stream offset test that already rejects the limit itself.
offset_rejected_AtLimit(stream_offset) == stream_offset >= Shl(1, 30)

\* configure's test of stream_offset.
offset_rejected(stream_offset) == stream_offset > Shl(1, 30)

\* BrotliEncoderOptions::configure: the parameters in their fixed order,
\* returning at the first error.
configure(o) ==
    LET ok(c) == c.res.tag = "ok"
        c0 == [set |-> <<>>, res |-> Ok(0)]
        c1 == IF o.mode = None THEN c0 ELSE set_param(c0, "MODE", o.mode[1])
        c2 == IF o.quality = None THEN c1
              ELSE set_param(c1, "QUALITY", o.quality[1])
        c3 == IF o.window_size = None THEN c2
              ELSE LET large_window == WindowSize_new(o.window_size[1]).tag # "ok"
                   IN set_param(set_param(c2, "LGWIN", o.window_size[1]),
                                "LARGE_WINDOW", IF large_window THEN 1 ELSE 0)
        c4 == IF o.block_bits = None THEN c3
              ELSE set_param(c3, "LGBLOCK", o.block_bits[1])
        c5 == IF o.disable_context_modeling = None THEN c4
              ELSE set_param(c4, "DISABLE_LITERAL_CONTEXT_MODELING",
                             o.disable_context_modeling[1])
        c6 == IF o.size_hint = None THEN c5
              ELSE set_param(c5, "SIZE_HINT", o.size_hint[1])
        c7 == IF o.postfix_bits = None \/ ~ok(c6) THEN c6
              ELSE IF postfix_rejected(o.postfix_bits[1])
              THEN [c6 EXCEPT !.res = Err("InvalidPostfix")]
              ELSE set_param(c6, "NPOSTFIX", o.postfix_bits[1])
        c8 == IF o.direct_distance_codes = None \/ ~ok(c7) THEN c7
              ELSE LET d       == o.direct_distance_codes[1]
                       postfix == IF o.postfix_bits = None THEN 0
                                  ELSE o.postfix_bits[1]
                   IN IF direct_rejected(d, postfix)
                      THEN [c7 EXCEPT !.res = Err("InvalidDirectDistanceCodes")]
                      ELSE set_param(c7, "NDIRECT", d)
        c9 == IF o.stream_offset = None \/ ~ok(c8) THEN c8
              ELSE IF offset_rejected(o.stream_offset[1])
              THEN [c8 EXCEPT !.res = Err("InvalidStreamOffset")]
              ELSE set_param(c8, "STREAM_OFFSET", o.stream_offset[1])
    IN c9

\* build that hands the encoder to nobody and never drops it when configure
\* fails.
build_NoRelease(o) ==
    LET c == configure(o) IN
    [set |-> c.set, res |-> c.res,
     encoder |-> IF c.res.tag = "ok" THEN Some(c.set) ELSE None,
     destroyed |-> 0]

\* BrotliEncoderOptions::build: a new encoder, configured.  Ok(encoder)
\* moves the encoder (with the parameters it was given) to the caller; the
\* `?` on an error returns without it, and the local encoder is dropped,
\* which destroys the native instance.
build(o) ==
    LET c == configure(o) IN
    [set |-> c.set, res |-> c.res,
     encoder |-> IF c.res.tag = "ok" THEN Some(c.set) ELSE None,
     destroyed |-> IF c.res.tag = "ok" THEN 0 ELSE 1]

\* A call of a parameter function and what it returned; for build also
\* the parameters given to the engine, the encoder returned and the number
\* of times the encoder it created was destroyed.
Called(fn, arg, r, set) ==
    [fn |-> fn, arg |-> arg, tag |-> r.tag, value |-> r.value, set |-> set,
     encoder |-> None, destroyed |-> 0]

NoResult == Called("none", 0, Ok(0), <<>>)

adapterVars == <<cwVars, drVars, crVars, dwVars, faults, ret>>

QualityNew(level) ==
    /\ result' = Called("Quality::new", level, Quality_new(level), <<>>)
    /\ UNCHANGED <<options, adapterVars>>

WindowSizeNew(bits) ==
    /\ result' = Called("WindowSize::new", bits, WindowSize_new(bits), <<>>)
    /\ UNCHANGED <<options, adapterVars>>

LargeWindowSizeNew(bits) ==
    /\ result' = Called("LargeWindowSize::new", bits,
                        LargeWindowSize_new(bits), <<>>)
    /\ UNCHANGED <<options, adapterVars>>

BlockSizeNew(bits) ==
    /\ result' = Called("BlockSize::new", bits, BlockSize_new(bits), <<>>)
    /\ UNCHANGED <<options, adapterVars>>

\* BrotliEncoderOptions::postfix_bits.
OptionsPostfixBits(p) ==
    /\ options' = [options EXCEPT !.postfix_bits = Some(p)]
    /\ result' = Called("postfix_bits", p, Ok(0), <<>>)
    /\ UNCHANGED adapterVars

\* BrotliEncoderOptions::direct_distance_codes.
OptionsDirectDistanceCodes(d) ==
    /\ options' = [options EXCEPT !.direct_distance_codes = Some(d)]
    /\ result' = Called("direct_distance_codes", d, Ok(0), <<>>)
    /\ UNCHANGED adapterVars

\* BrotliEncoderOptions::mode.
OptionsMode(mode) ==
    /\ options' = [options EXCEPT !.mode = Some(mode)]
    /\ result' = Called("mode", mode, Ok(0), <<>>)
    /\ UNCHANGED adapterVars

\* BrotliEncoderOptions::quality, with a Quality that Quality::new returned.
OptionsQuality(level) ==
    /\ Quality_new(level).tag = "ok"
    /\ options' = [options EXCEPT !.quality = Some(Quality_new(level).value)]
    /\ result' = Called("quality", level, Ok(0), <<>>)
    /\ UNCHANGED adapterVars

\* BrotliEncoderOptions::window_size, with a WindowSize that WindowSize::new
\* returned; it is stored as a LargeWindowSize of the same bits.
OptionsWindowSize(bits) ==
    /\ WindowSize_new(bits).tag = "ok"
    /\ options' = [options EXCEPT
                       !.window_size = Some(WindowSize_new(bits).value)]
    /\ result' = Called("window_size", bits, Ok(0), <<>>)
    /\ UNCHANGED adapterVars

\* BrotliEncoderOptions::large_window_size.
OptionsLargeWindowSize(bits) ==
    /\ LargeWindowSize_new(bits).tag = "ok"
    /\ options' = [options EXCEPT
                       !.window_size = Some(LargeWindowSize_new(bits).value)]
    /\ result' = Called("large_window_size", bits, Ok(0), <<>>)
    /\ UNCHANGED adapterVars

\* BrotliEncoderOptions::block_size.
OptionsBlockSize(bits) ==
    /\ BlockSize_new(bits).tag = "ok"
    /\ options' = [options EXCEPT !.block_bits = Some(BlockSize_new(bits).value)]
    /\ result' = Called("block_size", bits, Ok(0), <<>>)
    /\ UNCHANGED adapterVars

\* BrotliEncoderOptions::disable_context_modeling; the bool as the u32 it
\* is cast to.
OptionsDisableContextModeling(b) ==
    /\ options' = [options EXCEPT
                       !.disable_context_modeling = Some(IF b THEN 1 ELSE 0)]
    /\ result' = Called("disable_context_modeling", IF b THEN 1 ELSE 0,
                        Ok(0), <<>>)
    /\ UNCHANGED adapterVars

\* BrotliEncoderOptions::size_hint.
OptionsSizeHint(size_hint) ==
    /\ options' = [options EXCEPT !.size_hint = Some(size_hint)]
    /\ result' = Called("size_hint", size_hint, Ok(0), <<>>)
    /\ UNCHANGED adapterVars

\* BrotliEncoderOptions::stream_offset.
OptionsStreamOffset(stream_offset) ==
    /\ options' = [options EXCEPT !.stream_offset = Some(stream_offset)]
    /\ result' = Called("stream_offset", stream_offset, Ok(0), <<>>)
    /\ UNCHANGED adapterVars

\* BrotliEncoderOptions::build on the options as they are.
OptionsBuild ==
    /\ \E c \in {build(options)} :
           result' = [Called("build", 0, c.res, c.set) EXCEPT
                          !.encoder = c.encoder, !.destroyed = c.destroyed]
    /\ UNCHANGED <<options, adapterVars>>

\* ----------------------------------------------------------- decode errors
\* BrotliDecoderErrorCode: the error codes of the engine.
BROTLI_DECODER_ERROR_FORMAT_EXUBERANT_NIBBLE == -1
BROTLI_DECODER_ERROR_FORMAT_RESERVED == -2
BROTLI_DECODER_ERROR_FORMAT_EXUBERANT_META_NIBBLE == -3
BROTLI_DECODER_ERROR_FORMAT_SIMPLE_HUFFMAN_ALPHABET == -4
BROTLI_DECODER_ERROR_FORMAT_SIMPLE_HUFFMAN_SAME == -5
BROTLI_DECODER_ERROR_FORMAT_CL_SPACE == -6
BROTLI_DECODER_ERROR_FORMAT_HUFFMAN_SPACE == -7
BROTLI_DECODER_ERROR_FORMAT_CONTEXT_MAP_REPEAT == -8
BROTLI_DECODER_ERROR_FORMAT_BLOCK_LENGTH_1 == -9
BROTLI_DECODER_ERROR_FORMAT_BLOCK_LENGTH_2 == -10
BROTLI_DECODER_ERROR_FORMAT_TRANSFORM == -11
BROTLI_DECODER_ERROR_FORMAT_DICTIONARY == -12
BROTLI_DECODER_ERROR_FORMAT_WINDOW_BITS == -13
BROTLI_DECODER_ERROR_FORMAT_PADDING_1 == -14
BROTLI_DECODER_ERROR_FORMAT_PADDING_2 == -15
BROTLI_DECODER_ERROR_FORMAT_DISTANCE == -16
BROTLI_DECODER_ERROR_COMPOUND_DICTIONARY == -18
BROTLI_DECODER_ERROR_DICTIONARY_NOT_SET == -19
BROTLI_DECODER_ERROR_INVALID_ARGUMENTS == -20
BROTLI_DECODER_ERROR_ALLOC_CONTEXT_MODES == -21
BROTLI_DECODER_ERROR_ALLOC_TREE_GROUPS == -22
BROTLI_DECODER_ERROR_ALLOC_CONTEXT_MAP == -25
BROTLI_DECODER_ERROR_ALLOC_RING_BUFFER_1 == -26
BROTLI_DECODER_ERROR_ALLOC_RING_BUFFER_2 == -27
BROTLI_DECODER_ERROR_ALLOC_BLOCK_TYPE_TREES == -30
BROTLI_DECODER_ERROR_UNREACHABLE == -31

\* last_error without the arm for BROTLI_DECODER_ERROR_UNREACHABLE.
last_error_NoUnreachable(ec) ==
    CASE ec = BROTLI_DECODER_ERROR_FORMAT_EXUBERANT_NIBBLE ->
              "FormatExuberantNibble"
      [] ec = BROTLI_DECODER_ERROR_FORMAT_RESERVED ->
              "FormatReserved"
      [] ec = BROTLI_DECODER_ERROR_FORMAT_EXUBERANT_META_NIBBLE ->
              "FormatExuberantMetaNibble"
      [] ec = BROTLI_DECODER_ERROR_FORMAT_SIMPLE_HUFFMAN_ALPHABET ->
              "FormatSimpleHuffmanAlphabet"
      [] ec = BROTLI_DECODER_ERROR_FORMAT_SIMPLE_HUFFMAN_SAME ->
              "FormatSimpleHuffmanSame"
      [] ec = BROTLI_DECODER_ERROR_FORMAT_CL_SPACE ->
              "FormatClSpace"
      [] ec = BROTLI_DECODER_ERROR_FORMAT_HUFFMAN_SPACE ->
              "FormatHuffmanSpace"
      [] ec = BROTLI_DECODER_ERROR_FORMAT_CONTEXT_MAP_REPEAT ->
              "FormatContextMapRepeat"
      [] ec = BROTLI_DECODER_ERROR_FORMAT_BLOCK_LENGTH_1 ->
              "FormatBlockLength1"
      [] ec = BROTLI_DECODER_ERROR_FORMAT_BLOCK_LENGTH_2 ->
              "FormatBlockLength2"
      [] ec = BROTLI_DECODER_ERROR_FORMAT_TRANSFORM ->
              "FormatTransform"
      [] ec = BROTLI_DECODER_ERROR_FORMAT_DICTIONARY ->
              "FormatDictionary"
      [] ec = BROTLI_DECODER_ERROR_FORMAT_WINDOW_BITS ->
              "FormatWindowBits"
      [] ec = BROTLI_DECODER_ERROR_FORMAT_PADDING_1 ->
              "FormatPadding1"
      [] ec = BROTLI_DECODER_ERROR_FORMAT_PADDING_2 ->
              "FormatPadding2"
      [] ec = BROTLI_DECODER_ERROR_FORMAT_DISTANCE ->
              "FormatDistance"
      [] ec = BROTLI_DECODER_ERROR_COMPOUND_DICTIONARY ->
              "CompoundDictionary"
      [] ec = BROTLI_DECODER_ERROR_DICTIONARY_NOT_SET ->
              "DictionaryNotSet"
      [] ec = BROTLI_DECODER_ERROR_INVALID_ARGUMENTS ->
              "InvalidArguments"
      [] ec = BROTLI_DECODER_ERROR_ALLOC_CONTEXT_MODES ->
              "AllocContextModes"
      [] ec = BROTLI_DECODER_ERROR_ALLOC_TREE_GROUPS ->
              "AllocTreeGroups"
      [] ec = BROTLI_DECODER_ERROR_ALLOC_CONTEXT_MAP ->
              "AllocContextMap"
      [] ec = BROTLI_DECODER_ERROR_ALLOC_RING_BUFFER_1 ->
              "AllocRingBuffer1"
      [] ec = BROTLI_DECODER_ERROR_ALLOC_RING_BUFFER_2 ->
              "AllocRingBuffer2"
      [] ec = BROTLI_DECODER_ERROR_ALLOC_BLOCK_TYPE_TREES ->
              "AllocBlockTypeTrees"
      [] OTHER -> "UnknownError"

\* BrotliDecoder::last_error on the code BrotliDecoderGetErrorCode returns.
last_error(ec) ==
    CASE ec = BROTLI_DECODER_ERROR_FORMAT_EXUBERANT_NIBBLE ->
              "FormatExuberantNibble"
      [] ec = BROTLI_DECODER_ERROR_FORMAT_RESERVED ->
              "FormatReserved"
      [] ec = BROTLI_DECODER_ERROR_FORMAT_EXUBERANT_META_NIBBLE ->
              "FormatExuberantMetaNibble"
      [] ec = BROTLI_DECODER_ERROR_FORMAT_SIMPLE_HUFFMAN_ALPHABET ->
              "FormatSimpleHuffmanAlphabet"
      [] ec = BROTLI_DECODER_ERROR_FORMAT_SIMPLE_HUFFMAN_SAME ->
              "FormatSimpleHuffmanSame"
      [] ec = BROTLI_DECODER_ERROR_FORMAT_CL_SPACE ->
              "FormatClSpace"
      [] ec = BROTLI_DECODER_ERROR_FORMAT_HUFFMAN_SPACE ->
              "FormatHuffmanSpace"
      [] ec = BROTLI_DECODER_ERROR_FORMAT_CONTEXT_MAP_REPEAT ->
              "FormatContextMapRepeat"
      [] ec = BROTLI_DECODER_ERROR_FORMAT_BLOCK_LENGTH_1 ->
              "FormatBlockLength1"
      [] ec = BROTLI_DECODER_ERROR_FORMAT_BLOCK_LENGTH_2 ->
              "FormatBlockLength2"
      [] ec = BROTLI_DECODER_ERROR_FORMAT_TRANSFORM ->
              "FormatTransform"
      [] ec = BROTLI_DECODER_ERROR_FORMAT_DICTIONARY ->
              "FormatDictionary"
      [] ec = BROTLI_DECODER_ERROR_FORMAT_WINDOW_BITS ->
              "FormatWindowBits"
      [] ec = BROTLI_DECODER_ERROR_FORMAT_PADDING_1 ->
              "FormatPadding1"
      [] ec = BROTLI_DECODER_ERROR_FORMAT_PADDING_2 ->
              "FormatPadding2"
      [] ec = BROTLI_DECODER_ERROR_FORMAT_DISTANCE ->
              "FormatDistance"
      [] ec = BROTLI_DECODER_ERROR_COMPOUND_DICTIONARY ->
              "CompoundDictionary"
      [] ec = BROTLI_DECODER_ERROR_DICTIONARY_NOT_SET ->
              "DictionaryNotSet"
      [] ec = BROTLI_DECODER_ERROR_INVALID_ARGUMENTS ->
              "InvalidArguments"
      [] ec = BROTLI_DECODER_ERROR_ALLOC_CONTEXT_MODES ->
              "AllocContextModes"
      [] ec = BROTLI_DECODER_ERROR_ALLOC_TREE_GROUPS ->
              "AllocTreeGroups"
      [] ec = BROTLI_DECODER_ERROR_ALLOC_CONTEXT_MAP ->
              "AllocContextMap"
      [] ec = BROTLI_DECODER_ERROR_ALLOC_RING_BUFFER_1 ->
              "AllocRingBuffer1"
      [] ec = BROTLI_DECODER_ERROR_ALLOC_RING_BUFFER_2 ->
              "AllocRingBuffer2"
      [] ec = BROTLI_DECODER_ERROR_ALLOC_BLOCK_TYPE_TREES ->
              "AllocBlockTypeTrees"
      [] ec = BROTLI_DECODER_ERROR_UNREACHABLE ->
              "Unreachable"
      [] OTHER -> "UnknownError"

\* enum DecodeError: the discriminant of each variant (`e as isize`).
Discriminant(e) ==
    CASE e = "UnknownError" -> 0
      [] e = "FormatExuberantNibble" ->
              BROTLI_DECODER_ERROR_FORMAT_EXUBERANT_NIBBLE
      [] e = "FormatReserved" ->
              BROTLI_DECODER_ERROR_FORMAT_RESERVED
      [] e = "FormatExuberantMetaNibble" ->
              BROTLI_DECODER_ERROR_FORMAT_EXUBERANT_META_NIBBLE
      [] e = "FormatSimpleHuffmanAlphabet" ->
              BROTLI_DECODER_ERROR_FORMAT_SIMPLE_HUFFMAN_ALPHABET
      [] e = "FormatSimpleHuffmanSame" ->
              BROTLI_DECODER_ERROR_FORMAT_SIMPLE_HUFFMAN_SAME
      [] e = "FormatClSpace" ->
              BROTLI_DECODER_ERROR_FORMAT_CL_SPACE
      [] e = "FormatHuffmanSpace" ->
              BROTLI_DECODER_ERROR_FORMAT_HUFFMAN_SPACE
      [] e = "FormatContextMapRepeat" ->
              BROTLI_DECODER_ERROR_FORMAT_CONTEXT_MAP_REPEAT
      [] e = "FormatBlockLength1" ->
              BROTLI_DECODER_ERROR_FORMAT_BLOCK_LENGTH_1
      [] e = "FormatBlockLength2" ->
              BROTLI_DECODER_ERROR_FORMAT_BLOCK_LENGTH_2
      [] e = "FormatTransform" ->
              BROTLI_DECODER_ERROR_FORMAT_TRANSFORM
      [] e = "FormatDictionary" ->
              BROTLI_DECODER_ERROR_FORMAT_DICTIONARY
      [] e = "FormatWindowBits" ->
              BROTLI_DECODER_ERROR_FORMAT_WINDOW_BITS
      [] e = "FormatPadding1" ->
              BROTLI_DECODER_ERROR_FORMAT_PADDING_1
      [] e = "FormatPadding2" ->
              BROTLI_DECODER_ERROR_FORMAT_PADDING_2
      [] e = "FormatDistance" ->
              BROTLI_DECODER_ERROR_FORMAT_DISTANCE
      [] e = "CompoundDictionary" ->
              BROTLI_DECODER_ERROR_COMPOUND_DICTIONARY
      [] e = "DictionaryNotSet" ->
              BROTLI_DECODER_ERROR_DICTIONARY_NOT_SET
      [] e = "InvalidArguments" ->
              BROTLI_DECODER_ERROR_INVALID_ARGUMENTS
      [] e = "AllocContextModes" ->
              BROTLI_DECODER_ERROR_ALLOC_CONTEXT_MODES
      [] e = "AllocTreeGroups" ->
              BROTLI_DECODER_ERROR_ALLOC_TREE_GROUPS
      [] e = "AllocContextMap" ->
              BROTLI_DECODER_ERROR_ALLOC_CONTEXT_MAP
      [] e = "AllocRingBuffer1" ->
              BROTLI_DECODER_ERROR_ALLOC_RING_BUFFER_1
      [] e = "AllocRingBuffer2" ->
              BROTLI_DECODER_ERROR_ALLOC_RING_BUFFER_2
      [] e = "AllocBlockTypeTrees" ->
              BROTLI_DECODER_ERROR_ALLOC_BLOCK_TYPE_TREES
      [] e = "Unreachable" ->
              BROTLI_DECODER_ERROR_UNREACHABLE

\* BrotliDecoder::decompress when the engine returns
\* BROTLI_DECODER_RESULT_ERROR and its error code is ec:
\* Err(self.last_error()).
DecompressError(ec) ==
    /\ LET e == last_error(ec) IN
           result' = Called("decompress", ec,
                            [tag |-> e, value |-> Discriminant(e)], <<>>)
    /\ UNCHANGED <<options, adapterVars>>

\* ------------------------------------------------------------ pipelines
IdlePush ==
    /\ cw = NewCompressorWriter
    /\ fed = <<>>
    /\ accepted = <<>>
    /\ emitted = <<>>
    /\ destroyInstance = 0
    /\ innerOut = 0
    /\ dr = [inner |-> Source(<<>>, 1), decoder |-> NewDecoder]
    /\ drSt = "none"
    /\ upstream = <<>>
    /\ delivered = <<>>

IdleParams ==
    /\ options = NewOptions
    /\ result = NoResult

IdlePull ==
    /\ coded = <<>>
    /\ crEof = FALSE
    /\ dw = NewDecompressorWriter
    /\ dwSt = "none"
    /\ drem = <<>>

\* Push compression into a sink, then pull decompression of what the sink
\* received (src/tests/stream.rs, write_comp_read_decomp_verify).
Init ==
    /\ IdlePush
    /\ cwSt = "open"
    /\ IdlePull
    /\ src0 = <<>>
    /\ cr = [inner |-> Source(<<>>, 1), encoder |-> NewEncoder, op |-> "Process"]
    /\ crSt = "none"
    /\ IdleParams
    /\ faults = 0
    /\ ret = NoCall

Next ==
    \/ \E buf \in Seqs(Byte, MaxBuf) : CWWrite(buf)
    \/ CWFlush
    \/ CWIntoInner
    \/ IntoInnerErrorIntoInner
    \/ CWDrop
    \/ CWIntoParts
    \/ BrotliEncoderDrop
    \/ \E k \in 0..Len(cw.inner), fill \in 1..MaxFill : DRNew(k, fill)
    \/ \E cap \in 0..MaxBuf : DRRead(cap)
    \/ DRIntoInner
    \/ DRErrorIntoInner

Spec == Init /\ [][Next]_vars

\* Pull compression of a source, then push decompression of the bytes read
\* (src/tests/stream.rs, read_comp_write_decomp_verify).
InitPull ==
    /\ IdlePush
    /\ cwSt = "none"
    /\ IdlePull
    /\ \E b \in Seqs(Byte, MaxInput), fill \in 1..MaxFill :
           /\ src0 = b
           /\ cr = [inner |-> Source(b, fill), encoder |-> NewEncoder,
                    op |-> "Process"]
    /\ crSt = "open"
    /\ IdleParams
    /\ faults = 0
    /\ ret = NoCall

NextPull ==
    \/ \E cap \in 0..MaxBuf : CRRead(cap)
    \/ CRIntoInner
    \/ CRErrorIntoInner
    \/ CRIntoParts
    \/ DWNew
    \/ \E k \in 0..Len(drem) : DWWrite(k)
    \/ DWFlush
    \/ DWIntoInner
    \/ DWErrorIntoInner
    \/ DWIntoParts
    \/ \E fill \in 1..MaxFill : DRNew(Len(coded), fill)
    \/ \E cap \in 0..MaxBuf : DRRead(cap)
    \/ DRIntoInner
    \/ DRErrorIntoInner

SpecPull == InitPull /\ [][NextPull]_vars

\* The reads of a CompressorReader pass by pass.  A call that entered the
\* loop keeps running it: the loop is sequential code of the calling thread,
\* so a pass that can be made is made.
NextRead ==
    \/ \E cap \in 0..MaxBuf : CRReadEnter(cap)
    \/ CRReadPass

SpecRead == InitPull /\ [][NextRead]_vars /\ WF_vars(CRReadPass)

\* A sink adapter on its own: a CompressorWriter, or a DecompressorWriter
\* whose caller holds any sequence of coded symbols, well-formed or not.
InitSink ==
    /\ IdlePush
    /\ src0 = <<>>
    /\ cr = [inner |-> Source(<<>>, 1), encoder |-> NewEncoder, op |-> "Process"]
    /\ crSt = "none"
    /\ coded = <<>>
    /\ crEof = FALSE
    /\ dw = NewDecompressorWriter
    /\ \/ cwSt = "open" /\ dwSt = "none" /\ drem = <<>>
       \/ /\ cwSt = "none" /\ dwSt = "open"
          /\ drem \in Seqs(0..Hdr(BlockSize), MaxCoded)
    /\ IdleParams
    /\ faults = 0
    /\ ret = NoCall

NextSink ==
    \/ \E buf \in Seqs(Byte, MaxBuf) : CWWrite(buf)
    \/ CWFlush
    \/ CWIntoInner
    \/ IntoInnerErrorIntoInner
    \/ CWDrop
    \/ CWIntoParts
    \/ BrotliEncoderDrop
    \/ \E k \in 0..Len(drem) : DWWrite(k)
    \/ DWFlush
    \/ DWIntoInner
    \/ DWErrorIntoInner
    \/ DWIntoParts
    \/ CWWriterPanickedIntoInner
    \/ DWWriterPanickedIntoInner

SpecSink == InitSink /\ [][NextSink]_vars

\* A decompressing adapter on its own, given any sequence of coded symbols:
\* well-formed or not, truncated, or followed by bytes that belong to the
\* next consumer.  upstream is what the DecompressorReader's source held at
\* the start, coded what the DecompressorWriter's caller held.
InitDecode ==
    /\ cw = NewCompressorWriter
    /\ cwSt = "none"
    /\ fed = <<>>
    /\ accepted = <<>>
    /\ emitted = <<>>
    /\ destroyInstance = 0
    /\ innerOut = 0
    /\ delivered = <<>>
    /\ src0 = <<>>
    /\ cr = [inner |-> Source(<<>>, 1), encoder |-> NewEncoder, op |-> "Process"]
    /\ crSt = "none"
    /\ crEof = FALSE
    /\ dw = NewDecompressorWriter
    /\ \E c \in Seqs(0..Hdr(BlockSize), MaxCoded) :
           \/ /\ drSt = "open" /\ dwSt = "none"
              /\ upstream = c
              /\ \E fill \in 1..MaxFill :
                     dr = [inner |-> Source(c, fill), decoder |-> NewDecoder]
              /\ coded = <<>> /\ drem = <<>>
           \/ /\ drSt = "none" /\ dwSt = "open"
              /\ upstream = <<>>
              /\ dr = [inner |-> Source(<<>>, 1), decoder |-> NewDecoder]
              /\ coded = c /\ drem = c
    /\ IdleParams
    /\ faults = 0
    /\ ret = NoCall

NextDecode ==
    \/ \E cap \in 0..MaxBuf : DRRead(cap)
    \/ DRIntoInner
    \/ DRErrorIntoInner
    \/ \E k \in 0..Len(drem) : DWWrite(k)
    \/ DWIntoInner
    \/ DWErrorIntoInner

SpecDecode == InitDecode /\ [][NextDecode]_vars

\* No adapter in use: the parameter types and the options builder alone.
InitParams ==
    /\ IdlePush
    /\ cwSt = "none"
    /\ IdlePull
    /\ src0 = <<>>
    /\ cr = [inner |-> Source(<<>>, 1), encoder |-> NewEncoder, op |-> "Process"]
    /\ crSt = "none"
    /\ IdleParams
    /\ faults = 0
    /\ ret = NoCall

\* The range-checked constructors over every u8.
NextNew ==
    \/ \E level \in U8 : QualityNew(level)
    \/ \E bits \in U8 : WindowSizeNew(bits)
    \/ \E bits \in U8 : LargeWindowSizeNew(bits)
    \/ \E bits \in U8 : BlockSizeNew(bits)

SpecNew == InitParams /\ [][NextNew]_vars

\* Options set up and built.
NextOptions ==
    \/ \E p \in 0..MaxPostfix : OptionsPostfixBits(p)
    \/ \E d \in 0..MaxDirect : OptionsDirectDistanceCodes(d)
    \/ OptionsBuild

SpecOptions == InitParams /\ [][NextOptions]_vars

\* Every setter of the options with a few values each, and build: the
\* postfix bits and the direct distance codes on both sides of their tests,
\* the stream offset around its limit.
NextBuild ==
    \/ \E mode \in {BrotliEncoderMode_BROTLI_MODE_TEXT,
                     BrotliEncoderMode_BROTLI_MODE_FONT} : OptionsMode(mode)
    \/ OptionsQuality(BROTLI_MAX_QUALITY)
    \/ OptionsWindowSize(BROTLI_MAX_WINDOW_BITS)
    \/ OptionsLargeWindowSize(BROTLI_LARGE_MAX_WINDOW_BITS)
    \/ OptionsBlockSize(BROTLI_MIN_INPUT_BLOCK_BITS)
    \/ \E b \in BOOLEAN : OptionsDisableContextModeling(b)
    \/ OptionsSizeHint(MaxInput)
    \/ \E p \in {3, 4} : OptionsPostfixBits(p)
    \/ \E d \in {8, 121} : OptionsDirectDistanceCodes(d)
    \/ \E s \in (Shl(1, 30) - MaxOver)..(Shl(1, 30) + MaxOver) :
           OptionsStreamOffset(s)
    \/ OptionsBuild

SpecBuild == InitParams /\ [][NextBuild]_vars

\* The two window types constructed from every u8, the two setters of the
\* window with every value the types admit, and build.
NextWindow ==
    \/ \E bits \in U8 : WindowSizeNew(bits)
    \/ \E bits \in U8 : LargeWindowSizeNew(bits)
    \/ \E bits \in U8 : OptionsWindowSize(bits)
    \/ \E bits \in U8 : OptionsLargeWindowSize(bits)
    \/ OptionsBuild

SpecWindow == InitParams /\ [][NextWindow]_vars

\* Feeds of a decoder that report an error, over the engine's error codes
\* and the integers around them.
NextErrors == \E ec \in (-MaxCode)..MaxCode : DecompressError(ec)

SpecErrors == InitParams /\ [][NextErrors]_vars

TypeOK ==
    /\ cwSt \in {"none", "open", "error", "taken", "dropped", "parts", "released"}
    /\ drSt \in {"none", "open", "error", "taken"}
    /\ crSt \in {"none", "open", "error", "taken", "parts"}
    /\ dwSt \in {"none", "open", "error", "taken", "parts"}
    /\ faults \in 0..MaxFaults
    /\ Len(fed) <= MaxInput

\* ------------------------------------------------------------ properties
\* c is a complete coded stream: it decodes to the end with no byte left.
ValidCoded(c) ==
    LET d == Decoded(c) IN d.ok /\ d.info = "Finished" /\ d.bytes_read = Len(c)

\* The DecompressorReader's source was given a proper prefix of the stream
\* the sink received.
Truncated == Len(upstream) < Len(cw.inner)

\* C1: with a sink and a source that never fail, every write of a non-empty
\* buffer returns Ok(n) with n > 0 (so write_all succeeds), into_inner
\* returns Ok, no read through the DecompressorReader fails, and when read
\* reports end of stream the bytes it delivered are exactly the bytes written.
C1_RoundTripPushPull ==
    faults = 0 =>
        /\ (ret.op = "cw_write" => ret.tag = "ok" /\ (ret.cap > 0 => ret.n > 0))
        /\ (ret.op = "cw_into_inner" => ret.tag = "ok" /\ cwSt = "taken")
        /\ (drSt = "open" /\ ~Truncated /\ ret.op = "dr_read" =>
                /\ ret.tag = "ok"
                /\ (ret.cap > 0 /\ ret.n = 0 => delivered = accepted))

C1_Witness ==
    /\ drSt = "open" /\ faults = 0 /\ ~Truncated
    /\ ret.op = "dr_read" /\ ret.tag = "ok" /\ ret.cap > 0 /\ ret.n = 0
    /\ Len(accepted) = MaxInput
    /\ delivered = accepted

\* C3: whenever into_inner returns Ok, the encoder is finished, and the sink
\* has received every coded byte the encoder produced, terminator included.
C3_OkMeansFinishedAndComplete ==
    (ret.op = "cw_into_inner" /\ ret.tag = "ok") =>
        /\ is_finished(cw.encoder)
        /\ cw.inner = emitted
        /\ emitted # <<>> /\ emitted[Len(emitted)] = END

\* C4: after into_inner returned Ok, the bytes the sink accepted are the
\* encoder's complete output in order, whatever drains failed before.
C4_NoCodedByteLost ==
    (cwSt = "taken") => cw.inner = emitted

\* C5: when into_inner fails on the sink, the caller holds an IntoInnerError
\* with the I/O error and the adapter: the sink still has what it had
\* received, the encoder is the one that was given Finish (its staged input
\* kept, its pending output what the drain had not taken yet), and
\* IntoInnerError::into_inner hands that adapter back unchanged.
C5_ErrCarriesAdapter ==
    [][ /\ (cwSt = "open" /\ ret'.op = "cw_into_inner" /\ ret'.tag = "ioerr" =>
               LET g == give_op(cw.encoder, "Finish").enc IN
               /\ cwSt' = "error"
               /\ Take(cw'.inner, Len(cw.inner)) = cw.inner
               /\ cw'.encoder.staged = g.staged
               /\ \E k \in 1..Len(g.pending) :
                      cw'.encoder.pending = Drop(g.pending, k))
        /\ (cwSt = "error" /\ ret'.op = "cw_error_into_inner" =>
               cwSt' = "open" /\ cw' = cw) ]_vars

C5_Witness ==
    /\ cwSt = "open" /\ ret.op = "cw_error_into_inner"
    /\ faults > 0 /\ cw.inner # <<>> /\ has_output(cw.encoder)

\* C6 as stated: after into_inner failed on the sink the fault flag is set.
C6_ErrorSetsFaultFlag ==
    (ret.op = "cw_into_inner" /\ ret.tag = "ioerr") => cw.panicked

\* C6 amended: after into_inner failed on the sink the fault flag is clear
\* again; into_parts on the recovered adapter returns the encoder as Ok, and
\* dropping the IntoInnerError does request Finish once more.
C6_ErrorLeavesFlagClear ==
    [][ /\ (cwSt' = "error" => ~cw'.panicked)
        /\ (ret.op = "cw_error_into_inner" /\ ret'.op = "cw_into_parts" =>
               ret'.tag = "ok")
        /\ (cwSt = "error" /\ ret'.op = "cw_drop" =>
               ret'.feeds = <<Feed("Finish", 0)>>) ]_vars

C6_Witness ==
    /\ cwSt = "error" /\ ret.op = "cw_into_inner" /\ ret.tag = "ioerr"
    /\ ~cw.panicked /\ has_output(cw.encoder)

C8_FaultedDropIsInert ==
    [][ (cwSt \in {"open", "error"} /\ cw.panicked /\ ret'.op = "cw_drop") =>
            /\ cw' = cw
            /\ emitted' = emitted
            /\ ret'.feeds = <<>> ]_vars

C8_Witness ==
    /\ ret.op = "cw_drop" /\ cw.panicked /\ cwSt = "dropped"
    /\ cw.encoder.st = "PROCESSING"

\* C9: over a proper prefix of a complete coded stream, no read with a
\* non-empty buffer returns Ok(0) and none fails in the decoder; once the
\* prefix is used up and everything decoded has been delivered, such a read
\* returns UnexpectedEof (unless the source itself failed).
C9_TruncatedIsUnexpectedEof ==
    [][ (drSt = "open" /\ ValidCoded(cw.inner) /\ Truncated
         /\ ret'.op = "dr_read" /\ ret'.cap > 0) =>
            /\ ~(ret'.tag = "ok" /\ ret'.n = 0)
            /\ ret'.tag \in {"ok", "UnexpectedEof", "ioerr"}
            /\ (ret'.tag = "UnexpectedEof" =>
                   delivered' = Decoded(upstream).out)
            /\ (dr.inner.data = <<>> /\ dr.decoder.ring = <<>>
                /\ ret'.tag # "ioerr" => ret'.tag = "UnexpectedEof") ]_vars

C9_Witness ==
    /\ drSt = "open" /\ ValidCoded(cw.inner) /\ Truncated
    /\ ret.op = "dr_read" /\ ret.cap > 0 /\ ret.tag = "UnexpectedEof"
    /\ delivered # <<>>

\* C2: with a source and a sink that never fail, once CompressorReader has
\* been read to its end, every write of a non-empty rest of the coded bytes
\* to the DecompressorWriter returns Ok(n) with n > 0 (so write_all
\* succeeds), and when all of them are written into_inner returns Ok and the
\* sink holds exactly the source's bytes.
C2_RoundTripPullPush ==
    (faults = 0 /\ crEof /\ dwSt # "none") =>
        /\ (ret.op = "dw_write" =>
                ret.tag = "ok" /\ (ret.cap > 0 => ret.n > 0))
        /\ (ret.op = "dw_into_inner" /\ drem = <<>> =>
                ret.tag = "ok" /\ dwSt = "taken" /\ dw.inner = src0)

C2_Witness ==
    /\ faults = 0 /\ crEof /\ dwSt = "taken" /\ drem = <<>>
    /\ ret.op = "dw_into_inner" /\ ret.tag = "ok"
    /\ Len(src0) = MaxInput /\ dw.inner = src0

\* C10: a CompressorReader::read that returns Ok(0) for a non-empty buffer
\* leaves the encoder finished with no pending output, the bytes returned so
\* far are a complete coded stream, and into_inner called from then on
\* returns Ok.
C10_ZeroReadMeansFinished ==
    [][ /\ (ret'.op = "cr_read" /\ ret'.tag = "ok" /\ ret'.n = 0
            /\ ret'.cap > 0 =>
               /\ is_finished(cr'.encoder)
               /\ ~has_output(cr'.encoder)
               /\ ValidCoded(coded'))
        /\ (crEof /\ ret'.op = "cr_into_inner" =>
               ret'.tag = "ok" /\ crSt' = "taken") ]_vars

C10_Witness ==
    /\ crEof /\ crSt = "taken" /\ ret.op = "cr_into_inner" /\ ret.tag = "ok"
    /\ Len(src0) = MaxInput /\ ValidCoded(coded)

\* C11: into_inner of CompressorReader, DecompressorReader and
\* DecompressorWriter returns Ok exactly when the engine is finished, and
\* otherwise an IntoInnerError with UnexpectedEof that gives the adapter
\* back; either way the adapter is as it was (engine not fed, inner stream
\* not read or written).
C11_IntoInnerChecksFinished ==
    [][ /\ (ret'.op = "cr_into_inner" =>
               /\ (ret'.tag = "ok") = is_finished(cr.encoder)
               /\ ret'.tag \in {"ok", "UnexpectedEof"}
               /\ crSt' = (IF ret'.tag = "ok" THEN "taken" ELSE "error")
               /\ cr' = cr /\ coded' = coded /\ ret'.feeds = <<>>)
        /\ (ret'.op = "dr_into_inner" =>
               /\ (ret'.tag = "ok") = dec_is_finished(dr.decoder)
               /\ ret'.tag \in {"ok", "UnexpectedEof"}
               /\ drSt' = (IF ret'.tag = "ok" THEN "taken" ELSE "error")
               /\ dr' = dr /\ delivered' = delivered /\ ret'.feeds = <<>>)
        /\ (ret'.op = "dw_into_inner" =>
               /\ (ret'.tag = "ok") = dec_is_finished(dw.decoder)
               /\ ret'.tag \in {"ok", "UnexpectedEof"}
               /\ dwSt' = (IF ret'.tag = "ok" THEN "taken" ELSE "error")
               /\ dw' = dw /\ ret'.feeds = <<>>)
        /\ (ret'.op \in {"cr_error_into_inner", "dr_error_into_inner",
                         "dw_error_into_inner"} =>
               /\ cr' = cr /\ dr' = dr /\ dw' = dw
               /\ crSt' \in {crSt, "open"} /\ drSt' \in {drSt, "open"}
               /\ dwSt' \in {dwSt, "open"}) ]_vars

C11_Witness ==
    /\ crSt = "taken" /\ is_finished(cr.encoder)
    /\ ret.op = "dr_error_into_inner" /\ drSt = "open"
    /\ ~dec_is_finished(dr.decoder) /\ delivered # <<>>

\* C12: after flush returned Ok, a decoder fed exactly the bytes the sink has
\* received decodes them without error and reproduces every raw byte that
\* earlier writes accepted.
C12_FlushedPrefixDecodes ==
    (ret.op = "cw_flush" /\ ret.tag = "ok") =>
        /\ Decoded(cw.inner).ok
        /\ Decoded(cw.inner).bytes_read = Len(cw.inner)
        /\ Decoded(cw.inner).out = accepted

\* The flushed prefix when no call on the sink has failed before the flush:
\* it decodes to the accepted bytes and the encoder holds nothing back.
C12_FlushedPrefixDecodesNoFault ==
    (ret.op = "cw_flush" /\ ret.tag = "ok" /\ faults = 0) =>
        /\ Decoded(cw.inner).ok
        /\ Decoded(cw.inner).bytes_read = Len(cw.inner)
        /\ Decoded(cw.inner).out = accepted
        /\ cw.encoder.staged = <<>> /\ ~has_output(cw.encoder)

C14_ChunkedEqualsSingleWrite ==
    (cwSt = "taken" /\ faults = 0) =>
        /\ Decoded(cw.inner).ok /\ Decoded(OneWrite(accepted)).ok
        /\ Decoded(cw.inner).out = Decoded(OneWrite(accepted)).out
        /\ Decoded(OneWrite(accepted)).out = accepted

C14_Witness ==
    /\ cwSt = "taken" /\ faults = 0 /\ Len(accepted) = MaxInput
    /\ cw.inner # OneWrite(accepted)
    /\ Decoded(cw.inner).out = Decoded(OneWrite(accepted)).out

\* C15: while every call succeeds, a flush leaves the adapter open with the
\* encoder processing and nothing held back, a write that follows a flush is
\* accepted and makes progress, and into_inner returns a complete stream
\* that decodes to all accepted bytes in write order.
C15_FlushReturnsToOpen ==
    [][ faults' = 0 =>
          /\ (ret'.op = "cw_flush" =>
                 /\ ret'.tag = "ok" /\ cwSt' = "open"
                 /\ cw'.encoder.st = "PROCESSING"
                 /\ cw'.encoder.staged = <<>> /\ ~has_output(cw'.encoder)
                 /\ accepted' = accepted)
          /\ (ret.op = "cw_flush" /\ ret'.op = "cw_write" =>
                 /\ ret'.tag = "ok" /\ (ret'.cap > 0 => ret'.n > 0)
                 /\ Len(accepted') = Len(accepted) + ret'.n
                 /\ Take(accepted', Len(accepted)) = accepted)
          /\ (ret'.op = "cw_into_inner" =>
                 /\ ret'.tag = "ok"
                 /\ ValidCoded(cw'.inner)
                 /\ Decoded(cw'.inner).out = accepted') ]_vars

\* A finalized stream whose first block is shorter than the staging block:
\* a flush came after the first byte, and the writes after it were accepted.
C15_Witness ==
    /\ cwSt = "taken" /\ faults = 0 /\ Len(accepted) = MaxInput
    /\ cw.inner[1] = Hdr(1) /\ BlockSize > 1
    /\ Decoded(cw.inner).out = accepted

\* C16: on every teardown path of a CompressorWriter the encoder's native
\* state is destroyed at most once and the sink leaves the adapter at most
\* once; both have happened exactly once when the adapter was dropped, when
\* into_inner returned Ok, and when the encoder taken by into_parts was
\* dropped; while the adapter (or the IntoInnerError holding it) is alive
\* neither has happened, and after into_parts the caller owns the encoder.
C16_ReleasedExactlyOnce ==
    /\ destroyInstance <= 1 /\ innerOut <= 1
    /\ (cwSt \in {"taken", "dropped", "released"} =>
            destroyInstance = 1 /\ innerOut = 1)
    /\ (cwSt = "parts" => destroyInstance = 0 /\ innerOut = 1)
    /\ (cwSt \in {"open", "error"} => destroyInstance = 0 /\ innerOut = 0)

C16_Witness ==
    /\ cwSt = "released" /\ cw.panicked /\ ret.op = "encoder_drop"
    /\ ret.prev = <<"cw_into_parts", "WriterPanicked">>
    /\ destroyInstance = 1 /\ innerOut = 1

\* The decoder holds decoded bytes and cannot go on before some are taken:
\* its next call with no output space reports NeedsMoreOutput.
NeedsMoreOutput(d) ==
    /\ d.st # "ERROR"
    /\ Len(d.ring) >= RingSize \/ (d.st = "DONE" /\ d.ring # <<>>)

\* C17: a read with a buffer of zero capacity never panics and returns no
\* byte; when the decoder reports NeedsMoreOutput to it, the read returns
\* Ok(0) at once, leaving the decoder and the source as they were (unless
\* the source itself fails first).
C17_EmptyBufferReadReturnsZero ==
    [][ (drSt = "open" /\ ret'.op = "dr_read" /\ ret'.cap = 0) =>
            /\ ret'.tag # "panic"
            /\ ret'.n = 0 /\ delivered' = delivered
            /\ (decompress(dr'.decoder, <<>>, 0).info = "NeedsMoreOutput"
                 /\ ret'.tag # "ioerr" => ret'.tag = "ok")
            /\ (NeedsMoreOutput(dr.decoder) /\ ret'.tag # "ioerr" =>
                   /\ ret'.tag = "ok"
                   /\ dr'.decoder = dr.decoder
                   /\ dr'.inner.data = dr.inner.data) ]_vars

C17_Witness ==
    /\ drSt = "open" /\ ret.op = "dr_read" /\ ret.cap = 0
    /\ ret.tag = "ok" /\ ret.n = 0
    /\ ret.prev = <<"dr_read", "ok">>
    /\ NeedsMoreOutput(dr.decoder) /\ dr.decoder.st # "DONE"
    /\ dr.inner.data # <<>>

\* C18: each range-checked constructor returns Ok carrying the value for
\* exactly the values of its closed range, and its own error for every other
\* u8: Quality 0..=11 (InvalidQuality), WindowSize 10..=24 and
\* LargeWindowSize 10..=30 (InvalidWindowSize), BlockSize 16..=24
\* (InvalidBlockSize).
C18_ConstructorsAcceptTheirRange ==
    LET Accepts(lo, hi, err) ==
            IF result.arg >= lo /\ result.arg <= hi
            THEN result.tag = "ok" /\ result.value = result.arg
            ELSE result.tag = err
    IN /\ (result.fn = "Quality::new" => Accepts(0, 11, "InvalidQuality"))
       /\ (result.fn = "WindowSize::new" =>
               Accepts(10, 24, "InvalidWindowSize"))
       /\ (result.fn = "LargeWindowSize::new" =>
               Accepts(10, 30, "InvalidWindowSize"))
       /\ (result.fn = "BlockSize::new" =>
               Accepts(16, 24, "InvalidBlockSize"))

C18_Witness ==
    /\ result.fn = "LargeWindowSize::new" /\ result.arg = 31
    /\ result.tag = "InvalidWindowSize"

\* C19 as stated: build with direct_distance_codes d set succeeds only if
\* d <= 15 << p and d is a multiple of 1 << p (p the postfix_bits set, 0 when
\* none is), and returns InvalidDirectDistanceCodes otherwise.
C19_DirectDistanceCodesChecked ==
    (result.fn = "build" /\ options.direct_distance_codes # None) =>
        LET d == options.direct_distance_codes[1]
            p == IF options.postfix_bits = None THEN 0
                 ELSE options.postfix_bits[1]
            valid == d <= 15 * (2 ^ p) /\ d % (2 ^ p) = 0
        IN /\ (result.tag = "ok" => valid)
           /\ (~valid => result.tag = "InvalidDirectDistanceCodes")

\* C19 amended: for p <= 3 build succeeds only if d <= 15 << p and d is a
\* multiple of 1 << p, returns InvalidDirectDistanceCodes otherwise, and
\* hands a d that passes to the encoder; for p > 3 it returns InvalidPostfix
\* whatever d is.
C19_DirectDistanceCodesCheckedAfterPostfix ==
    (result.fn = "build" /\ options.direct_distance_codes # None) =>
        LET d == options.direct_distance_codes[1]
            p == IF options.postfix_bits = None THEN 0
                 ELSE options.postfix_bits[1]
            valid == d <= 15 * (2 ^ p) /\ d % (2 ^ p) = 0
        IN IF p > 3 THEN result.tag = "InvalidPostfix"
           ELSE /\ (result.tag = "ok" => valid)
                /\ (~valid => result.tag = "InvalidDirectDistanceCodes")
                /\ (valid =>
                       /\ result.tag # "InvalidDirectDistanceCodes"
                       /\ \E i \in 1..Len(result.set) :
                              result.set[i] = <<"NDIRECT", d>>)

C19_Witness ==
    /\ result.fn = "build" /\ result.tag = "InvalidDirectDistanceCodes"
    /\ options.postfix_bits = Some(3)
    /\ options.direct_distance_codes = Some(116)

\* C20: build with postfix_bits p set returns InvalidPostfix for every
\* p > 3, and for p in 0..=3 never returns InvalidPostfix and hands p to
\* the encoder.
C20_PostfixChecked ==
    (result.fn = "build" /\ options.postfix_bits # None) =>
        LET p == options.postfix_bits[1] IN
        IF p > 3 THEN result.tag = "InvalidPostfix"
        ELSE /\ result.tag # "InvalidPostfix"
             /\ \E i \in 1..Len(result.set) : result.set[i] = <<"NPOSTFIX", p>>

C20_Witness ==
    /\ result.fn = "build" /\ result.tag = "InvalidPostfix"
    /\ options.postfix_bits = Some(4) /\ options.direct_distance_codes = None

\* C21 as stated: build with stream_offset s set does not reject s when
\* s <= 2^30 (2^30 itself included) and returns InvalidStreamOffset for
\* every s > 2^30.
C21_StreamOffsetChecked ==
    (result.fn = "build" /\ options.stream_offset # None) =>
        LET s == options.stream_offset[1] IN
        IF s <= 2 ^ 30 THEN result.tag # "InvalidStreamOffset"
        ELSE result.tag = "InvalidStreamOffset"

\* C21 amended: the stream offset is tested last.  When the postfix bits or
\* the direct distance codes set are rejected, build returns their error
\* whatever s is; otherwise build succeeds and hands s to the encoder for
\* every s <= 2^30 and returns InvalidStreamOffset for every s > 2^30.
C21_StreamOffsetCheckedLast ==
    (result.fn = "build" /\ options.stream_offset # None) =>
        LET s == options.stream_offset[1]
            p == IF options.postfix_bits = None THEN 0
                 ELSE options.postfix_bits[1]
            badDirect ==
                /\ options.direct_distance_codes # None
                /\ LET d == options.direct_distance_codes[1] IN
                       d > 15 * (2 ^ p) \/ d % (2 ^ p) # 0
        IN IF p > 3 THEN result.tag = "InvalidPostfix"
           ELSE IF badDirect THEN result.tag = "InvalidDirectDistanceCodes"
           ELSE IF s <= 2 ^ 30
           THEN /\ result.tag = "ok"
                /\ result.set[Len(result.set)] = <<"STREAM_OFFSET", s>>
           ELSE result.tag = "InvalidStreamOffset"

C21_Witness ==
    /\ result.fn = "build" /\ result.tag = "ok"
    /\ options.stream_offset = Some(2 ^ 30)
    /\ options.postfix_bits = Some(3)
    /\ options.direct_distance_codes = Some(8)

\* The first n sequences of ss, concatenated.
RECURSIVE Flatten(_, _)
Flatten(ss, n) == IF n = 0 THEN <<>> ELSE Flatten(ss, n - 1) \o ss[n]

\* C22: build gives the engine the set parameters in the order mode, quality,
\* window size, block size, context modeling, size hint, postfix bits,
\* direct distance codes, stream offset, up to the first one that is
\* invalid; it returns that one's error, gives the engine nothing after it,
\* returns no encoder and destroys the one it created exactly once.  With
\* nothing invalid it returns the encoder with every set parameter applied
\* and destroys nothing.
C22_FixedOrderFailFast ==
    result.fn = "build" =>
        LET o == options
            one(f, key) == IF f = None THEN <<>> ELSE <<<<key, f[1]>>>>
            p == IF o.postfix_bits = None THEN 0 ELSE o.postfix_bits[1]
            given == <<
                one(o.mode, "MODE"),
                one(o.quality, "QUALITY"),
                IF o.window_size = None THEN <<>>
                ELSE <<<<"LGWIN", o.window_size[1]>>,
                       <<"LARGE_WINDOW",
                         IF o.window_size[1] > 24 THEN 1 ELSE 0>>>>,
                one(o.block_bits, "LGBLOCK"),
                one(o.disable_context_modeling,
                    "DISABLE_LITERAL_CONTEXT_MODELING"),
                one(o.size_hint, "SIZE_HINT"),
                one(o.postfix_bits, "NPOSTFIX"),
                one(o.direct_distance_codes, "NDIRECT"),
                one(o.stream_offset, "STREAM_OFFSET") >>
            error == <<
                "", "", "", "", "", "",
                IF o.postfix_bits # None /\ p > 3 THEN "InvalidPostfix" ELSE "",
                IF /\ o.direct_distance_codes # None
                   /\ LET d == o.direct_distance_codes[1] IN
                          d > 15 * (2 ^ p) \/ d % (2 ^ p) # 0
                THEN "InvalidDirectDistanceCodes" ELSE "",
                IF o.stream_offset # None /\ o.stream_offset[1] > 2 ^ 30
                THEN "InvalidStreamOffset" ELSE "" >>
            invalid == {i \in 1..9 : error[i] # ""}
        IN IF invalid = {}
           THEN /\ result.tag = "ok"
                /\ result.set = Flatten(given, 9)
                /\ result.encoder = Some(result.set)
                /\ result.destroyed = 0
           ELSE LET first == CHOOSE i \in invalid : \A j \in invalid : i <= j
                IN /\ result.tag = error[first]
                   /\ result.set = Flatten(given, first - 1)
                   /\ result.encoder = None
                   /\ result.destroyed = 1

C22_Witness ==
    /\ result.fn = "build" /\ result.tag = "InvalidPostfix"
    /\ options.mode # None /\ options.size_hint # None
    /\ options.postfix_bits = Some(4)
    /\ options.direct_distance_codes = Some(121)
    /\ options.stream_offset = Some(2 ^ 30 + 1)
    /\ Len(result.set) = 2
    /\ result.encoder = None /\ result.destroyed = 1

\* The error codes the engine defines (BROTLI_DECODER_ERROR_*).
KnownErrorCodes ==
    {-c : c \in (1..16) \cup (18..22) \cup (25..27) \cup {30, 31}}

\* C23: when a feed reports an error with the engine's error code c, the
\* DecodeError returned has the discriminant c for every known error code c
\* (so it is not UnknownError, whose discriminant is 0), and is UnknownError
\* for every other code.
C23_ErrorCodePreserved ==
    result.fn = "decompress" =>
        IF result.arg \in KnownErrorCodes
        THEN result.value = result.arg /\ result.tag # "UnknownError"
        ELSE result.tag = "UnknownError" /\ result.value = 0

C23_Witness ==
    /\ result.fn = "decompress" /\ result.arg = -31
    /\ result.tag = "Unreachable" /\ result.value = -31

\* C24 as stated: at every normal return (Ok or Err, not an unwinding) of
\* write, flush or into_inner of a CompressorWriter or a DecompressorWriter,
\* the fault flag is false.
C24_FlagClearAtNormalReturn ==
    /\ (ret.op \in {"cw_write", "cw_flush", "cw_into_inner"}
            /\ ret.tag # "panic" => ~cw.panicked)
    /\ (ret.op \in {"dw_write", "dw_flush", "dw_into_inner"}
            /\ ret.tag # "panic" => ~dw.panicked)

\* C24 amended: the flag rises only in a call whose inner write unwinds; a
\* call that returns normally leaves the flag false if it wrote to the
\* inner sink or found the flag false, and otherwise leaves it as it was.
C24_FlagSetOnlyByUnwinding ==
    [][ /\ (ret'.op \in {"cw_write", "cw_flush", "cw_into_inner"} =>
               /\ (cw'.panicked /\ ~cw.panicked => ret'.tag = "panic")
               /\ (cw'.panicked /\ ret'.tag # "panic" =>
                       cw.panicked /\ cw'.inner = cw.inner)
               /\ (ret'.tag = "panic" => cw'.panicked))
        /\ (ret'.op \in {"dw_write", "dw_flush", "dw_into_inner"} =>
               /\ (dw'.panicked /\ ~dw.panicked => ret'.tag = "panic")
               /\ (dw'.panicked /\ ret'.tag # "panic" =>
                       dw.panicked /\ dw'.inner = dw.inner)
               /\ (ret'.tag = "panic" => dw'.panicked)) ]_vars

C24_Witness ==
    /\ ret.op = "dw_write" /\ ret.tag = "ioerr" /\ ret.prev = <<"dw_write", "ok">>
    /\ ~dw.panicked /\ dw.inner # <<>>

\* C25: into_parts of a CompressorWriter or a DecompressorWriter returns
\* Ok(engine) exactly when the fault flag is clear and WriterPanicked exactly
\* when it is set; it feeds the engine nothing, leaves the engine and the
\* inner sink as they were, and WriterPanicked::into_inner hands out that
\* same engine.
C25_IntoPartsByFlag ==
    [][ /\ (ret'.op = "cw_into_parts" =>
               /\ (ret'.tag = "ok") = ~cw.panicked
               /\ (ret'.tag = "WriterPanicked") = cw.panicked
               /\ ret'.feeds = <<>>
               /\ cw' = cw /\ emitted' = emitted /\ fed' = fed
               /\ cwSt' = "parts")
        /\ (ret'.op = "cw_panicked_into_inner" =>
               cw.panicked /\ cw'.encoder = cw.encoder /\ cwSt' = "parts")
        /\ (ret'.op = "dw_into_parts" =>
               /\ (ret'.tag = "ok") = ~dw.panicked
               /\ (ret'.tag = "WriterPanicked") = dw.panicked
               /\ ret'.feeds = <<>>
               /\ dw' = dw /\ drem' = drem
               /\ dwSt' = "parts")
        /\ (ret'.op = "dw_panicked_into_inner" =>
               dw.panicked /\ dw'.decoder = dw.decoder /\ dwSt' = "parts")
      ]_vars

C25_Witness ==
    /\ ret.op = "dw_panicked_into_inner"
    /\ ret.prev = <<"dw_into_parts", "WriterPanicked">>
    /\ dw.panicked /\ dw.decoder.ring # <<>>

\* C26: when CompressorWriter::write, CompressorWriter::flush or
\* DecompressorWriter::write returns Ok, the engine has no output left to
\* take, and the inner sink has received, after what it held, all the output
\* the engine held when the call began followed by all it produced during
\* the call.
C26_OkReturnLeavesNoOutput ==
    [][ /\ (ret'.op \in {"cw_write", "cw_flush"} /\ ret'.tag = "ok" =>
               /\ ~has_output(cw'.encoder)
               /\ cw'.inner = cw.inner \o cw.encoder.pending
                                  \o Drop(emitted', Len(emitted)))
        /\ (ret'.op = "dw_write" /\ ret'.tag = "ok" =>
               /\ ~dec_has_output(dw'.decoder)
               /\ dw'.inner = dw.inner \o
                      dec_give_input(dw.decoder, Take(drem, ret'.cap)).dec.ring)
      ]_vars

C26_Witness ==
    /\ ret.op = "cw_flush" /\ ret.tag = "ok"
    /\ ret.prev = <<"cw_write", "ok">>
    /\ Len(cw.inner) = Len(fed) + 2 /\ Len(fed) = MaxInput
    /\ cw.encoder.staged = <<>>

C28_InnerFlushAfterDrain ==
    [][ ret'.op = "cw_flush" =>
            LET g == give_op(cw.encoder, "Flush")
                drained == /\ ~has_output(cw'.encoder)
                           /\ cw'.inner = cw.inner \o g.enc.pending
            IN /\ (ret'.flushed => g.ok /\ drained)
               /\ (~g.ok => ret'.tag = "encerr" /\ ~ret'.flushed /\ cw' = cw)
               /\ (g.ok /\ ~drained =>
                       ret'.tag \in {"ioerr", "panic"} /\ ~ret'.flushed)
               /\ (ret'.tag = "ok" => ret'.flushed)
      ]_vars

C28_Witness ==
    /\ ret.op = "cw_flush" /\ ret.tag = "ioerr" /\ ~ret.flushed
    /\ has_output(cw.encoder) /\ cw.inner # <<>>

\* C29: in a call of a sink adapter during which no call on the inner sink
\* fails, the sink receives, after what it held, exactly the bytes the call
\* took from the engine's pending output, in the order the engine held
\* them: the output the engine had when the call began followed by what the
\* call's feed produced, less what is still pending at the end.  A call
\* that takes nothing writes nothing.
C29_SinkReceivesTakenChunks ==
    [][ /\ (ret'.op \in {"cw_write", "cw_flush", "cw_into_inner", "cw_drop"}
                /\ faults' = faults =>
               LET held  == cw.encoder.pending \o Drop(emitted', Len(emitted))
                   taken == Len(held) - Len(cw'.encoder.pending)
               IN /\ taken >= 0
                  /\ cw'.encoder.pending = Drop(held, taken)
                  /\ cw'.inner = cw.inner \o Take(held, taken))
        /\ (ret'.op = "dw_write" /\ faults' = faults =>
               LET g     == dec_give_input(dw.decoder, Take(drem, ret'.cap))
                   held  == g.dec.ring
                   taken == Len(held) - Len(dw'.decoder.ring)
               IN /\ taken >= 0
                  /\ dw'.decoder.ring = Drop(held, taken)
                  /\ dw'.inner = dw.inner \o Take(held, taken))
        /\ (ret'.op \in {"cw_into_parts", "cw_panicked_into_inner",
                         "cw_error_into_inner", "encoder_drop"} =>
               cw'.inner = cw.inner)
        /\ (ret'.op \in {"dw_flush", "dw_into_inner", "dw_error_into_inner",
                         "dw_into_parts", "dw_panicked_into_inner"} =>
               dw'.inner = dw.inner)
      ]_vars

C29_Witness ==
    /\ ret.op = "cw_into_inner" /\ ret.tag = "ok" /\ faults = 0
    /\ Len(fed) = MaxInput /\ cw.inner = emitted
    /\ Len(emitted) = MaxInput + 3

\* C30: a CompressorReader's operation is always Process or Finish and is
\* Process at the start; it changes only from Process to Finish, and only
\* inside a read into a non-empty buffer, at a pass of the loop whose
\* upstream pull was empty and whose feed wrote no byte; every pass before
\* the change fed Process and every pass after it Finish, the operation never
\* returns to Process and the unreachable arm of the match is never taken.
C30_OpProcessThenFinish ==
    /\ cr.op = "Process"
    /\ [][ /\ cr'.op \in {"Process", "Finish"}
           /\ (cr.op = "Finish" => cr'.op = "Finish")
           /\ (ret'.op = "cr_read" =>
                 /\ ret'.tag # "panic"
                 /\ \A i \in 1..Len(ret'.feeds) :
                        ret'.feeds[i][1] \in {"Process", "Finish"}
                 /\ (ret'.feeds # <<>> =>
                        /\ ret'.feeds[1][1] = cr.op
                        /\ ret'.feeds[Len(ret'.feeds)][1] \in {cr.op, cr'.op}))
           /\ (cr'.op # cr.op =>
                 /\ ret'.op = "cr_read"
                 /\ ret'.cap > 0
                 /\ \E i \in 1..Len(ret'.feeds) :
                        /\ ret'.feeds[i] = FeedOut("Process", 0, 0)
                        /\ \A j \in 1..(i - 1) : ret'.feeds[j][1] = "Process"
                        /\ \A j \in (i + 1)..Len(ret'.feeds) :
                               ret'.feeds[j][1] = "Finish") ]_vars

\* A read into a non-empty buffer has switched the operation to Finish after
\* an empty upstream pull whose feed wrote nothing, and has fed Finish since.
C30_Witness ==
    /\ ret.op = "cr_read"
    /\ ret.cap > 0
    /\ cr.op = "Finish"
    /\ \E i \in 1..(Len(ret.feeds) - 1) :
           /\ ret.feeds[i] = FeedOut("Process", 0, 0)
           /\ ret.feeds[i + 1][1] = "Finish"

\* C31: with a source that keeps reporting EOF once it has reported it,
\* every pass of a CompressorReader's read that feeds Finish feeds it an empty
\* input, and once a read has fed Finish the source has nothing left: no
\* raw byte reaches the encoder after Finish was first requested.
C31_FinishFeedsEmptyInput ==
    [][ ret'.op = "cr_read" =>
          /\ \A i \in 1..Len(ret'.feeds) :
                 ret'.feeds[i][1] = "Finish" => ret'.feeds[i][2] = 0
          /\ (cr'.op = "Finish" =>
                 /\ fill_buf(cr'.inner).slice = <<>>
                 /\ cr'.inner.data = <<>>) ]_vars

\* A read that began with the operation already Finish fed it an empty input
\* and returned coded bytes.
C31_Witness ==
    /\ ret.op = "cr_read" /\ ret.tag = "ok" /\ ret.n > 0
    /\ ret.feeds # <<>>
    /\ ret.feeds[1][1] = "Finish" /\ ret.feeds[1][2] = 0
    /\ src0 # <<>>

\* C32 as stated: once a CompressorReader's read has returned Ok(0) for a
\* non-empty buffer, every later read returns Ok(0), produces no byte,
\* consumes nothing from the source, and the encoder stays finished.
C32_EofSticky ==
    [][ (crEof /\ ret'.op = "cr_read") =>
            /\ ret'.tag = "ok" /\ ret'.n = 0
            /\ coded' = coded
            /\ cr'.inner.data = cr.inner.data
            /\ is_finished(cr'.encoder) ]_vars

\* C32 amended: once a read has returned Ok(0) for a non-empty buffer, every
\* later read pulls from the source once more; when that pull fails the read
\* returns the source's error, and otherwise it returns Ok(0) after a single
\* empty feed.  Either way it produces no byte, consumes nothing from the
\* source and leaves the encoder as it was, and the encoder stays finished
\* from then on, whatever is called.
C32_EofStickyUnlessPullFails ==
    [][ /\ (crEof /\ ret'.op = "cr_read" =>
               /\ ret'.tag \in {"ok", "ioerr"}
               /\ (ret'.tag = "ioerr" <=> faults' = faults + 1)
               /\ (ret'.tag = "ioerr" => ret'.feeds = <<>>)
               /\ (ret'.tag = "ok" =>
                      /\ faults' = faults
                      /\ ret'.feeds = <<FeedOut("Finish", 0, 0)>>)
               /\ ret'.n = 0
               /\ coded' = coded
               /\ cr'.inner.data = cr.inner.data
               /\ cr'.encoder = cr.encoder)
        /\ (crEof => crEof' /\ is_finished(cr'.encoder)) ]_vars

\* A read into a non-empty buffer made after the end was reported returned
\* Ok(0) again, the source having held data at the start.
C32_Witness ==
    /\ ret.op = "cr_read" /\ ret.atEof
    /\ ret.tag = "ok" /\ ret.n = 0 /\ ret.cap > 0
    /\ src0 # <<>> /\ ValidCoded(coded)

\* C33 as stated: a CompressorReader's read with a buffer of zero capacity
\* returns Ok(0) after at most one pull and one feed, never switches the
\* operation, and is no end of stream; with such reads made anywhere, the
\* bytes the non-empty reads returned up to the end are a complete stream
\* that decodes to the whole source.
C33_EmptyReadIsNotEof ==
    /\ [][ (ret'.op = "cr_read" /\ ret'.cap = 0) =>
               /\ ret'.tag = "ok" /\ ret'.n = 0
               /\ Len(ret'.feeds) <= 1
               /\ cr'.op = cr.op
               /\ crEof' = crEof
               /\ coded' = coded ]_vars
    /\ [](crEof => ValidCoded(coded) /\ Decoded(coded).out = src0)

\* C33 amended: a read with a buffer of zero capacity pulls from the source
\* once; when the pull fails it returns the source's error having fed
\* nothing, and otherwise it feeds the slice once, in the operation it found,
\* and returns Ok(0).  It never switches the operation, returns no byte and is
\* no end of stream; with such reads made anywhere, the bytes the non-empty
\* reads returned up to the end are a complete stream that decodes to the
\* whole source.
C33_EmptyReadIsNotEofUnlessPullFails ==
    /\ [][ (ret'.op = "cr_read" /\ ret'.cap = 0) =>
               /\ ret'.tag \in {"ok", "ioerr"}
               /\ (ret'.tag = "ioerr" <=> faults' = faults + 1)
               /\ (ret'.tag = "ioerr" => ret'.feeds = <<>> /\ cr' = cr)
               /\ (ret'.tag = "ok" =>
                      /\ Len(ret'.feeds) = 1
                      /\ ret'.feeds[1][1] = cr.op
                      /\ ret'.feeds[1][2] = Len(fill_buf(cr.inner).slice)
                      /\ ret'.feeds[1][3] = 0)
               /\ ret'.n = 0
               /\ cr'.op = cr.op
               /\ crEof' = crEof
               /\ coded' = coded ]_vars
    /\ [](crEof => ValidCoded(coded) /\ Decoded(coded).out = src0)

\* Between non-empty reads that returned coded bytes and before the end, a
\* read with an empty buffer fed raw bytes to the encoder in Process and
\* returned Ok(0).
C33_Witness ==
    /\ ret.op = "cr_read" /\ ret.cap = 0 /\ ret.tag = "ok"
    /\ ret.feeds # <<>> /\ ret.feeds[1][1] = "Process" /\ ret.feeds[1][2] > 0
    /\ ~crEof /\ cr.op = "Process"
    /\ coded # <<>> /\ Len(src0) = MaxInput

\* C34 as stated: over a finite source that reports EOF, every call of a
\* CompressorReader's read that entered its loop returns, and it returns a
\* positive count or the final 0 (the encoder finished and drained); a call
\* during which the source fails is outside the claim.
C34_ReadTerminates ==
    /\ (crSt = "reading") ~> (crSt = "open")
    /\ [][ (crSt = "reading" /\ crSt' = "open") =>
               /\ ret'.op = "cr_read"
               /\ \/ ret'.tag = "ioerr"
                  \/ ret'.tag = "ok" /\ ret'.n > 0
                  \/ /\ ret'.tag = "ok" /\ ret'.n = 0
                     /\ is_finished(cr'.encoder) /\ ~has_output(cr'.encoder)
                     /\ crEof' ]_vars

\* C34 amended: every call that entered the loop returns; it returns a
\* positive count, or the final 0 for a non-empty buffer (the encoder
\* finished and drained), or Ok(0) after one pass for a buffer of zero
\* capacity, which is no end of stream, or the error of a source that failed.
C34_ReadTerminatesOrEmptyBuffer ==
    /\ (crSt = "reading") ~> (crSt = "open")
    /\ [][ (crSt = "reading" /\ crSt' = "open") =>
               /\ ret'.op = "cr_read"
               /\ \/ ret'.tag = "ioerr" /\ faults' = faults + 1
                  \/ ret'.tag = "ok" /\ ret'.n > 0 /\ ret'.n <= ret'.cap
                  \/ /\ ret'.tag = "ok" /\ ret'.n = 0 /\ ret'.cap > 0
                     /\ is_finished(cr'.encoder) /\ ~has_output(cr'.encoder)
                     /\ crEof'
                  \/ /\ ret'.tag = "ok" /\ ret'.n = 0 /\ ret'.cap = 0
                     /\ ret.feeds = <<>>
                     /\ crEof' = crEof ]_vars

\* A call returned the final 0 after passes that consumed the source to its
\* end, switched to Finish and found the finished encoder drained.
C34_Witness ==
    /\ crSt = "open" /\ ret.op = "cr_read" /\ ret.tag = "ok"
    /\ ret.n = 0 /\ ret.cap > 0
    /\ ret.prev = <<"cr_read_enter", "pending">>
    /\ ret.feeds = <<FeedOut("Finish", 0, 0)>>
    /\ ~ret.atEof /\ crEof
    /\ Len(src0) = MaxInput /\ ValidCoded(coded)

\* C35: the decompressing adapters consume nothing past the end of the coded
\* stream.  When a DecompressorReader's decoder has reached the end, the
\* bytes taken from the source are exactly one complete stream, what follows
\* it is still in the source, and no later read takes a byte.  A
\* DecompressorWriter's write that brings the decoder to the end consumes up
\* to the stream's terminator and no further (with no sink failure before,
\* the bytes the caller has written are exactly one complete stream), and
\* once the decoder is finished a write returns Ok(0), writes nothing to the
\* sink and leaves the caller's bytes as they were.
C35_NoReadPastEnd ==
    /\ [](drSt = "open" /\ dr.decoder.st = "DONE" =>
            LET n == Len(upstream) - Len(dr.inner.data) IN
            /\ ValidCoded(Take(upstream, n))
            /\ dr.inner.data = Drop(upstream, n))
    /\ [][ /\ (ret'.op = "dr_read" /\ dr.decoder.st = "DONE" =>
                  dr'.inner.data = dr.inner.data)
           /\ (ret'.op = "dw_write" /\ dw.decoder.st = "DONE" =>
                  drem' = drem /\ ret'.n = 0)
           /\ (ret'.op = "dw_write" /\ dec_is_finished(dw.decoder) =>
                  /\ ret'.tag = "ok" /\ ret'.n = 0
                  /\ dw' = dw /\ drem' = drem /\ faults' = faults)
           /\ (ret'.op = "dw_write" /\ ret'.tag = "ok" /\ ret'.n > 0
                 /\ dw'.decoder.st = "DONE" =>
                  /\ drem[ret'.n] = END
                  /\ (faults' = 0 =>
                         ValidCoded(Take(coded, Len(coded) - Len(drem')))))
         ]_vars

\* A DecompressorReader delivered a whole stream, reported its end, and was
\* read once more: the byte that followed the stream is still in its source.
C35_Witness ==
    /\ drSt = "open" /\ dec_is_finished(dr.decoder)
    /\ ret.op = "dr_read" /\ ret.tag = "ok" /\ ret.n = 0 /\ ret.cap > 0
    /\ ret.prev = <<"dr_read", "ok">>
    /\ delivered # <<>>
    /\ dr.inner.data # <<>>
    /\ Len(upstream) = MaxCoded

\* C36: DecompressorReader::read never panics, on any sequence of coded
\* symbols and with any buffer: the arm for NeedsMoreOutput with a non-empty
\* buffer and no byte written is never taken, and every failure of read is
\* returned as an error value (the source's error, the decoder's error or
\* UnexpectedEof).
C36_ReadNeverPanics ==
    [][ ret'.op = "dr_read" =>
          /\ ret'.tag \in {"ok", "ioerr", "decerr", "UnexpectedEof"}
          /\ LET d == decompress(dr'.decoder, fill_buf(dr'.inner).slice, ret'.cap)
             IN (d.ok /\ d.info = "NeedsMoreOutput" /\ ret'.cap > 0) =>
                    d.bytes_written > 0 ]_vars

\* The decoder reported NeedsMoreOutput to a read with a non-empty buffer,
\* which it had filled: the read returned the bytes, with more held back.
C36_Witness ==
    /\ drSt = "open" /\ ret.op = "dr_read" /\ ret.tag = "ok"
    /\ ret.cap > 0 /\ ret.n = ret.cap
    /\ NeedsMoreOutput(dr.decoder)
    /\ dr.decoder.ring # <<>>

\* C37: window_size and large_window_size write the same option, so the
\* bits of the later call are the ones kept; build hands those bits to the
\* engine as LGWIN and then sets LARGE_WINDOW to 1 exactly when they exceed
\* 24 (25..30) and to 0 for 10..24; with no window set it gives the engine
\* neither parameter.
C37_LargeWindowAbove24 ==
    /\ [][ /\ (result'.fn \in {"window_size", "large_window_size"} =>
                  options'.window_size = Some(result'.arg))
           /\ (result'.fn = "window_size" =>
                  result'.arg \in BROTLI_MIN_WINDOW_BITS..BROTLI_MAX_WINDOW_BITS)
           /\ (result'.fn = "large_window_size" =>
                  result'.arg \in
                      BROTLI_MIN_WINDOW_BITS..BROTLI_LARGE_MAX_WINDOW_BITS)
           /\ (result'.fn = "build" => options' = options) ]_vars
    /\ [](result.fn = "build" =>
            IF options.window_size = None
            THEN result.tag = "ok" /\ result.set = <<>>
            ELSE LET bits == options.window_size[1] IN
                 /\ bits \in 10..30
                 /\ result.tag = "ok"
                 /\ result.set = << <<"LGWIN", bits>>,
                                    <<"LARGE_WINDOW",
                                      IF bits \in 25..30 THEN 1 ELSE 0>> >>
                 /\ result.encoder = Some(result.set))

\* build applied a window of 25 bits, the smallest large one, and enabled
\* the large window.
C37_Witness ==
    /\ result.fn = "build" /\ result.tag = "ok"
    /\ options.window_size = Some(BROTLI_MAX_WINDOW_BITS + 1)
    /\ result.set = << <<"LGWIN", BROTLI_MAX_WINDOW_BITS + 1>>,
                       <<"LARGE_WINDOW", 1>> >>

====
